---- MODULE Spec2Model ----
(***************************************************************************)
(* Model of the MCBE translate viewer's translation resolution engine:     *)
(*   - the .lang parsers (langParser.ts, vanillaTranslations.ts),          *)
(*   - the vanilla translation provider and its on-disk cache              *)
(*     (vanillaTranslations.ts),                                           *)
(*   - resource pack discovery (resourcePackScanner.ts),                   *)
(*   - the TranslationManager and the callbacks that drive it              *)
(*     (translationManager.ts, extension.ts, decorationProvider.ts).       *)
(*                                                                         *)
(* A string of file content is a sequence of one-character strings.  A     *)
(* TranslationMap is a sequence of entries with pairwise distinct keys, in *)
(* the insertion order a JavaScript object keeps for its string keys.      *)
(***************************************************************************)
EXTENDS Integers, Sequences, FiniteSets, TLC

VARIABLES
    \* ---- environment --------------------------------------------------
    now,                \* Date.now(), in milliseconds
    cacheFile,          \* cacheDir/<language>.lang: NoFile or its content
    metaFile,           \* cacheDir/<language>.meta.json: NoFile or its content
    fetched,            \* history: per language, the body and the time of the
                        \* last fetch that resolved since its cache was cleared
    cfgDefaultLanguage, \* setting mcbeTranslateViewer.defaultLanguage
    cfgResourcePackPaths, \* setting mcbeTranslateViewer.resourcePackPaths
    cfgUseVanilla,      \* setting mcbeTranslateViewer.useVanillaTranslations
    workspaceFolders,   \* vscode.workspace.workspaceFolders
    packFiles,          \* the files below each candidate root directory
    \* ---- VanillaTranslationProvider -----------------------------------
    enabled,            \* VanillaTranslationProvider.enabled
    loads,              \* the loadTranslations calls in flight, by call id
    ev,                 \* the last step taken: which call, and what it did
    \* ---- TranslationManager -------------------------------------------
    vanillaProvider,    \* TRUE once initVanillaProvider has run
    translations,       \* TranslationManager.translations
    currentLanguage,    \* TranslationManager.currentLanguage
    resourcePacks,      \* TranslationManager.resourcePacks
    availableLanguages, \* TranslationManager.availableLanguages
    calls               \* the manager calls suspended on their baseline load

vars == <<now, cacheFile, metaFile, fetched, cfgDefaultLanguage, cfgResourcePackPaths,
          cfgUseVanilla, workspaceFolders, packFiles, enabled,
          loads, ev, vanillaProvider, translations, currentLanguage,
          resourcePacks, availableLanguages, calls>>

cacheVars == <<cacheFile, metaFile, fetched>>
workspaceVars == <<cfgDefaultLanguage, cfgResourcePackPaths, cfgUseVanilla,
                   workspaceFolders, packFiles>>
providerVars == <<enabled, loads>>
managerVars == <<vanillaProvider, translations, currentLanguage, resourcePacks,
                 availableLanguages, calls>>

(***************************************************************************)
(* Strings                                                                 *)
(***************************************************************************)

\* The characters String.prototype.trim removes that occur in the model.
WhiteSpace == {" ", "\t", "\r", "\n"}

\* s.split('\n')
RECURSIVE SplitFrom(_, _, _)
SplitFrom(s, i, cur) ==
    IF i > Len(s) THEN <<cur>>
    ELSE IF s[i] = "\n" THEN <<cur>> \o SplitFrom(s, i + 1, <<>>)
    ELSE SplitFrom(s, i + 1, Append(cur, s[i]))

SplitLines(s) == SplitFrom(s, 1, <<>>)

RECURSIVE TrimStart(_)
TrimStart(s) ==
    IF s # <<>> /\ Head(s) \in WhiteSpace THEN TrimStart(Tail(s)) ELSE s

RECURSIVE TrimEnd(_)
TrimEnd(s) ==
    IF s # <<>> /\ s[Len(s)] \in WhiteSpace
    THEN TrimEnd(SubSeq(s, 1, Len(s) - 1))
    ELSE s

\* s.trim()
Trim(s) == TrimEnd(TrimStart(s))

\* s.startsWith(p)
StartsWith(s, p) == Len(s) >= Len(p) /\ SubSeq(s, 1, Len(p)) = p

\* s.indexOf(c): the 0-based index of the first c, or -1
RECURSIVE IndexFrom(_, _, _)
IndexFrom(s, c, i) ==
    IF i > Len(s) THEN -1
    ELSE IF s[i] = c THEN i - 1
    ELSE IndexFrom(s, c, i + 1)

IndexOf(s, c) == IndexFrom(s, c, 1)

(***************************************************************************)
(* TranslationMap                                                          *)
(***************************************************************************)

EmptyMap == <<>>

Keys(m) == {m[i].key : i \in DOMAIN m}

Has(m, k) == \E i \in DOMAIN m : m[i].key = k

Get(m, k) == m[CHOOSE i \in DOMAIN m : m[i].key = k]

Entries(m) == {m[i] : i \in DOMAIN m}

\* An assignment that leaves an existing key as it is
PutKeepFirst(m, e) == IF Has(m, e.key) THEN m ELSE Append(m, e)

\* m[e.key] = e: an existing key keeps its place, a new key goes last.
\* The table is an object literal: the assignment to __proto__ of an entry
\* (an object) replaces the prototype of the table and gives it no property
\* of its own, so Object.keys, Object.values and a spread do not see it.
Put(m, e) ==
    IF e.key = <<"_", "_", "p", "r", "o", "t", "o", "_", "_">>
    THEN m
    ELSE IF Has(m, e.key)
    THEN [i \in DOMAIN m |-> IF m[i].key = e.key THEN e ELSE m[i]]
    ELSE Append(m, e)

\* { ...b, ...a }: the spread with its operands exchanged
SpreadExchanged(a, b) ==
    LET RECURSIVE puts(_, _)
        puts(acc, i) == IF i > Len(a) THEN acc ELSE puts(Put(acc, a[i]), i + 1)
    IN  puts(b, 1)

\* { ...a, ...b }
RECURSIVE SpreadFrom(_, _, _)
SpreadFrom(a, b, i) ==
    IF i > Len(b) THEN a ELSE SpreadFrom(Put(a, b[i]), b, i + 1)

Spread(a, b) == SpreadFrom(a, b, 1)

(***************************************************************************)
(* The .lang parsers                                                       *)
(***************************************************************************)

\* The loop body of parseLangFile: line i (0-based) of the file, added to
\* the map built so far.
ParseLine(acc, rawLine, i, filePath) ==
    LET line == Trim(rawLine)
        equalIndex == IndexOf(line, "=")
        key == SubSeq(line, 1, equalIndex)
        value == SubSeq(line, equalIndex + 2, Len(line))
    IN  IF line = <<>> \/ StartsWith(line, <<"#", "#">>) \/ StartsWith(line, <<"#">>)
        THEN acc
        ELSE IF equalIndex = -1 THEN acc
        ELSE IF key # <<>>
        THEN Put(acc, [key |-> key, value |-> value, line |-> i + 1,
                       filePath |-> filePath])
        ELSE acc

\* The loop of parseLangFile, from line i (0-based) on
RECURSIVE ParseFrom(_, _, _, _)
ParseFrom(lines, i, acc, filePath) ==
    IF i >= Len(lines) THEN acc
    ELSE ParseFrom(lines, i + 1, ParseLine(acc, lines[i + 1], i, filePath), filePath)

\* `vanilla:${language}`
VanillaPath(language) == <<"vanilla", language>>

\* The loop of parseLangContent over the lines of the content, from line i
\* (0-based) on; table is the map built from the lines before it.
\* A line that is empty after trim() or starts with # is skipped, and so is
\* a line without = or with nothing before its first =.
RECURSIVE parseLangContentFrom(_, _, _, _)
parseLangContentFrom(lines, i, table, language) ==
    IF ~(i < Len(lines)) THEN table
    ELSE LET line == Trim(lines[i + 1])
             skipped == \/ Len(line) = 0
                        \/ StartsWith(line, <<"#", "#">>)
                        \/ StartsWith(line, <<"#">>)
             equalIndex == IndexOf(line, "=")
             key == SubSeq(line, 1, equalIndex)
             value == SubSeq(line, equalIndex + 2, Len(line))
             entry == [key |-> key, value |-> value, line |-> i + 1,
                       filePath |-> VanillaPath(language)]
         IN  parseLangContentFrom(
                 lines, i + 1,
                 IF ~skipped /\ equalIndex # -1 /\ Len(key) > 0
                 THEN Put(table, entry)
                 ELSE table,
                 language)

\* parseLangContent numbering the lines from 0
parseLangContentZeroBased(content, language) ==
    LET table == parseLangContentFrom(SplitLines(content), 0, EmptyMap, language)
    IN  [i \in DOMAIN table |-> [table[i] EXCEPT !.line = table[i].line - 1]]

\* vanillaTranslations.ts parseLangContent
parseLangContent(content, language) ==
    parseLangContentFrom(SplitLines(content), 0, EmptyMap, language)

(***************************************************************************)
(* Bounds and program constants                                            *)
(***************************************************************************)

\* vanillaTranslations.ts: const CACHE_DURATION_HOURS = 24
CACHE_DURATION_HOURS == 24

\* isCacheValid: 1000 * 60 * 60
MsPerHour == 3600000

\* The clock is read up to this many milliseconds before and after the
\* moment the cache duration has passed.
MaxSkewMs == 1

Locales == {"en_US", "de_DE"}

\* Ids of the calls that can be in flight at the same time.
CallIds == {"c1", "c2"}

\* A file: missing, readable with a content, or a directory in its place,
\* which can be neither read nor written.
NoFile == [kind |-> "missing", content |-> <<>>]
File(c) == [kind |-> "file", content |-> c]
Unreadable == [kind |-> "unreadable", content |-> <<>>]

\* string | null
None == <<>>
Some(x) == <<x>>

\* Bodies the remote endpoint serves: "", "k=base", "k=b2\nj=b2"
Contents ==
    { <<>>,
      <<"k", "=", "b", "a", "s", "e">>,
      <<"k", "=", "b", "2", "\n", "j", "=", "b", "2">> }

\* The clock readings of the model: the start, an hour before and an hour
\* after the cache duration, and the milliseconds around the cache duration.
TimePoints ==
    {0, (CACHE_DURATION_HOURS - 1) * MsPerHour, (CACHE_DURATION_HOURS + 1) * MsPerHour}
    \cup {CACHE_DURATION_HOURS * MsPerHour + s : s \in (0 - MaxSkewMs)..MaxSkewMs}

(***************************************************************************)
(* VanillaTranslationProvider (vanillaTranslations.ts)                     *)
(***************************************************************************)

\* fs.existsSync
existsSync(f) == f.kind # "missing"

\* The value JSON.parse gives the fetchedAt property of the metadata: a
\* number, a string, null, true, false, an empty array, an object, or
\* nothing (the property is absent: undefined).
JsonNumber(n) == [type |-> "number", num |-> n, str |-> <<>>]
JsonString(s) == [type |-> "string", num |-> 0, str |-> s]
JsonNull == [type |-> "null", num |-> 0, str |-> <<>>]
JsonTrue == [type |-> "true", num |-> 0, str |-> <<>>]
JsonFalse == [type |-> "false", num |-> 0, str |-> <<>>]
JsonEmptyArray == [type |-> "array", num |-> 0, str |-> <<>>]
JsonObject == [type |-> "object", num |-> 0, str |-> <<>>]
JsonAbsent == [type |-> "undefined", num |-> 0, str |-> <<>>]

\* The digits of the numeric literals, a digit at the place of its value
\* plus one; the letters stand for 10 to 15 in either case.
Digits == <<"0", "1", "2", "3", "4", "5", "6", "7", "8", "9",
            "a", "b", "c", "d", "e", "f">>
UpperDigits == <<"0", "1", "2", "3", "4", "5", "6", "7", "8", "9",
                 "A", "B", "C", "D", "E", "F">>

\* The value of the character as a digit, 16 when it is none
DigitValue(c) ==
    IF \E d \in DOMAIN Digits : Digits[d] = c
    THEN (CHOOSE d \in DOMAIN Digits : Digits[d] = c) - 1
    ELSE IF \E d \in DOMAIN UpperDigits : UpperDigits[d] = c
    THEN (CHOOSE d \in DOMAIN UpperDigits : UpperDigits[d] = c) - 1
    ELSE 16

\* s is one or more digits of the base
IsDigits(s, base) == s # <<>> /\ \A i \in DOMAIN s : DigitValue(s[i]) < base

\* The value of a string of digits of the base
RECURSIVE DigitsValue(_, _)
DigitsValue(s, base) ==
    IF s = <<>> THEN 0
    ELSE base * DigitsValue(SubSeq(s, 1, Len(s) - 1), base) + DigitValue(s[Len(s)])

RECURSIVE Pow10(_)
Pow10(n) == IF n = 0 THEN 1 ELSE 10 * Pow10(n - 1)

\* A JavaScript number: NaN, Infinity, -Infinity, or the fraction num / den
NaN == [kind |-> "nan", num |-> 0, den |-> 1]
Infinity(negative) ==
    [kind |-> IF negative THEN "-inf" ELSE "inf", num |-> 0, den |-> 1]
Fraction(num, den) == [kind |-> "finite", num |-> num, den |-> den]
Number(n) == Fraction(n, 1)

\* The decimal literal whole.fraction with the exponent expDigits: digits
\* are needed before or after the dot, and the number is the digits over
\* 10 to the length of the fraction, times or divided by 10 to the exponent.
DecimalNumber(whole, fraction, expDigits, expNegative, negative) ==
    IF /\ whole = <<>> \/ IsDigits(whole, 10)
       /\ fraction = <<>> \/ IsDigits(fraction, 10)
       /\ whole # <<>> \/ fraction # <<>>
    THEN Fraction((IF negative THEN 0 - 1 ELSE 1)
                      * DigitsValue(whole \o fraction, 10)
                      * (IF expNegative THEN 1
                         ELSE Pow10(DigitsValue(expDigits, 10))),
                  Pow10(Len(fraction))
                      * (IF expNegative THEN Pow10(DigitsValue(expDigits, 10))
                         ELSE 1))
    ELSE NaN

\* The mantissa, whose dot is at the 0-based index dot (-1: it has none)
Mantissa(mantissa, dot, expDigits, expNegative, negative) ==
    IF dot = -1
    THEN DecimalNumber(mantissa, <<>>, expDigits, expNegative, negative)
    ELSE DecimalNumber(SubSeq(mantissa, 1, dot),
                       SubSeq(mantissa, dot + 2, Len(mantissa)),
                       expDigits, expNegative, negative)

\* The mantissa with the digits of an exponent part, which has one at least
ExponentDigits(mantissa, expDigits, expNegative, negative) ==
    IF IsDigits(expDigits, 10)
    THEN Mantissa(mantissa, IndexOf(mantissa, "."), expDigits, expNegative,
                  negative)
    ELSE NaN

\* The literal s, whose e or E is at the 0-based index e (-1: it has none);
\* the exponent may have a sign
ExponentPart(s, e, negative) ==
    IF e = -1
    THEN Mantissa(s, IndexOf(s, "."), <<>>, FALSE, negative)
    ELSE IF e + 2 <= Len(s) /\ s[e + 2] \in {"+", "-"}
    THEN ExponentDigits(SubSeq(s, 1, e), SubSeq(s, e + 3, Len(s)),
                        s[e + 2] = "-", negative)
    ELSE ExponentDigits(SubSeq(s, 1, e), SubSeq(s, e + 2, Len(s)), FALSE,
                        negative)

\* The first of two 0-based indices, -1 standing for none
FirstOf(i, j) ==
    IF i = -1 THEN j ELSE IF j = -1 THEN i ELSE IF i < j THEN i ELSE j

\* StrUnsignedDecimalLiteral: Infinity, or digits with an optional fraction
\* and an optional exponent ("12", "1.5", "5.", ".5", "1e3", "1e-3")
StrUnsignedDecimal(s, negative) ==
    IF s = <<"I", "n", "f", "i", "n", "i", "t", "y">> THEN Infinity(negative)
    ELSE ExponentPart(s, FirstOf(IndexOf(s, "e"), IndexOf(s, "E")), negative)

\* The base the literal s is written in, by its first two characters
NumericBase(s) ==
    IF Len(s) < 2 THEN 10
    ELSE IF SubSeq(s, 1, 2) \in {<<"0", "x">>, <<"0", "X">>} THEN 16
    ELSE IF SubSeq(s, 1, 2) \in {<<"0", "o">>, <<"0", "O">>} THEN 8
    ELSE IF SubSeq(s, 1, 2) \in {<<"0", "b">>, <<"0", "B">>} THEN 2
    ELSE 10

\* StringToNumber of a string without white space around it: the empty
\* string is 0, a literal is hexadecimal (0x), octal (0o), binary (0b), both
\* without sign, or decimal with an optional sign; anything else is NaN.
StrNumericLiteral(s) ==
    IF s = <<>> THEN Number(0)
    ELSE IF NumericBase(s) # 10
    THEN IF IsDigits(SubSeq(s, 3, Len(s)), NumericBase(s))
         THEN Number(DigitsValue(SubSeq(s, 3, Len(s)), NumericBase(s)))
         ELSE NaN
    ELSE IF s[1] \in {"+", "-"}
    THEN StrUnsignedDecimal(Tail(s), s[1] = "-")
    ELSE StrUnsignedDecimal(s, FALSE)

\* StringToNumber: white space around the literal is dropped.
StringToNumber(str) == StrNumericLiteral(Trim(str))

\* The number the subtraction Date.now() - metadata.fetchedAt converts
\* fetchedAt to (ToNumber): null and false are 0, true is 1, a string is
\* converted by StringToNumber, [] becomes the string "" and so 0, undefined
\* is NaN, and an object becomes "[object Object]" and so NaN.
ToNumber(v) ==
    IF v.type = "number" THEN Number(v.num)
    ELSE IF v.type \in {"null", "false"} THEN Number(0)
    ELSE IF v.type = "true" THEN Number(1)
    ELSE IF v.type = "string" THEN StringToNumber(v.str)
    ELSE IF v.type = "array" THEN StringToNumber(<<>>)
    ELSE NaN

\* The text of <language>.meta.json as JSON.parse reads it back: parses =
\* the text is JSON with properties (not null), fetchedAt = the value of
\* its property fetchedAt.
Metadata(parses, fetchedAt) == [parses |-> parses, fetchedAt |-> fetchedAt]

\* The text writeToCache stores in <language>.meta.json
MetaJson(fetchedAt) == Metadata(TRUE, JsonNumber(fetchedAt))

\* ageHours <= CACHE_DURATION_HOURS for a record fetched at fetchedAt: the
\* rounded difference is at most the duration when the exact one is at most
\* 1 / 2^27 above it.
NotOlderThanCacheDuration(fetchedAt) ==
    IF fetchedAt.kind = "finite"
    THEN LET whole == fetchedAt.num \div fetchedAt.den
             rest == fetchedAt.num % fetchedAt.den
             start == now - CACHE_DURATION_HOURS * MsPerHour
         IN  IF whole # start - 1 THEN whole >= start
             ELSE fetchedAt.den \div (fetchedAt.den - rest) >= 134217728
    ELSE fetchedAt.kind = "inf"

\* ageHours < CACHE_DURATION_HOURS for a record fetched at the number
\* fetchedAt, where ageHours = (Date.now() - fetchedAt) / (1000 * 60 * 60)
\* in double precision.  Date.now() and the duration in milliseconds,
\* 86400000, are whole numbers.  The difference is rounded to the nearest
\* double: the doubles from 2^26 to 2^27 are 1 / 2^26 apart and 86400000 is
\* the even one of its neighbours, so the rounded difference is below
\* 86400000 exactly when the exact one is below 86400000 - 1 / 2^27, and
\* then the quotient is below 24.  With start = Date.now() - 86400000 the
\* record is fresh exactly when fetchedAt > start + 1 / 2^27: for
\* fetchedAt = whole + rest / den, when whole > start, or whole = start and
\* rest * 2^27 > den.  The age is NaN for NaN, -Infinity for Infinity and
\* Infinity for -Infinity.
YoungerThanCacheDuration(fetchedAt) ==
    IF fetchedAt.kind = "finite"
    THEN LET whole == fetchedAt.num \div fetchedAt.den
             rest == fetchedAt.num % fetchedAt.den
             start == now - CACHE_DURATION_HOURS * MsPerHour
         IN  IF whole # start THEN whole > start
             ELSE rest > 0 /\ fetchedAt.den \div rest < 134217728
    ELSE fetchedAt.kind = "inf"             \* NaN < 24, Infinity < 24: false

\* isCacheValid with ageHours <= CACHE_DURATION_HOURS in place of <
isCacheValidInclusive(meta, cache) ==
    IF ~existsSync(meta) \/ ~existsSync(cache)
    THEN FALSE
    ELSE IF meta.kind # "file" \/ ~meta.content.parses
    THEN FALSE
    ELSE NotOlderThanCacheDuration(ToNumber(meta.content.fetchedAt))

\* isCacheValid taking metadata it cannot read or parse for fresh
isCacheValidTrusting(meta, cache) ==
    IF ~existsSync(meta) \/ ~existsSync(cache)
    THEN FALSE
    ELSE IF meta.kind # "file" \/ ~meta.content.parses
    THEN TRUE
    ELSE YoungerThanCacheDuration(ToNumber(meta.content.fetchedAt))

\* isCacheValid, on the two cache files of the language.  The subtraction
\* Date.now() - metadata.fetchedAt converts fetchedAt to a number.
isCacheValidOn(meta, cache) ==
    IF ~existsSync(meta) \/ ~existsSync(cache)
    THEN FALSE
    ELSE IF meta.kind # "file" \/ ~meta.content.parses
    THEN FALSE                          \* catch { return false }
    ELSE YoungerThanCacheDuration(ToNumber(meta.content.fetchedAt))

isCacheValid(language) ==
    isCacheValidOn(metaFile[language], cacheFile[language])

\* readFromCache: string | null
readFromCacheOn(cache) ==
    IF ~existsSync(cache) THEN None
    ELSE IF cache.kind # "file" THEN None
    ELSE Some(cache.content)

readFromCache(language) == readFromCacheOn(cacheFile[language])

\* if (cached): null and the empty string are both falsy
Truthy(s) == s # None /\ s[1] # <<>>

\* loadTranslations without the test of this.enabled
loadStartAlwaysEnabled(isEnabled, meta, cache, language) ==
    IF isCacheValidOn(meta, cache) /\ Truthy(readFromCacheOn(cache))
    THEN [path |-> "cache-hit",
          table |-> parseLangContent(readFromCacheOn(cache)[1], language),
          io |-> {"stat", "read"}]
    ELSE [path |-> "fetching", table |-> EmptyMap, io |-> {"stat", "fetch"}]

\* loadTranslations up to its first suspension, on the two cache files of the
\* language: what it returns, or that it went on to fetch.  io lists the
\* cache files and network it touched.
loadStartOn(isEnabled, meta, cache, language) ==
    IF ~isEnabled
    THEN [path |-> "disabled", table |-> EmptyMap, io |-> {}]
    ELSE IF isCacheValidOn(meta, cache) /\ Truthy(readFromCacheOn(cache))
    THEN [path |-> "cache-hit",
          table |-> parseLangContent(readFromCacheOn(cache)[1], language),
          io |-> {"stat", "read"}]
    ELSE [path |-> "fetching", table |-> EmptyMap,
          io |-> IF isCacheValidOn(meta, cache) THEN {"stat", "read", "fetch"}
                 ELSE {"stat", "fetch"}]

loadStart(language) ==
    loadStartOn(enabled, metaFile[language], cacheFile[language], language)

\* fetchUrl on one response: follow the redirect, reject, or resolve.
\* status 0 stands for a request or response 'error' event.
fetchUrl(response) ==
    IF response.status = 301 \/ response.status = 302
    THEN IF ~response.location THEN "reject" ELSE "follow"
    ELSE IF response.status # 200 THEN "reject"
    ELSE "resolve"

\* The responses a request can receive.
Responses ==
    [status : {200}, location : {FALSE}, body : Contents]
    \cup [status : {301, 302, 303, 307, 308}, location : BOOLEAN, body : {<<>>}]
    \cup [status : {0, 404}, location : {FALSE}, body : {<<>>}]

\* The URLs a location header can name: a redirect goes to either.
Urls == {"origin", "mirror"}

\* loadTranslations returning no entries after fetchUrl resolved
loadFetchedEmpty(language, content) ==
    [path |-> "cache-refreshed", table |-> EmptyMap, io |-> {"write"}]

\* loadTranslations after fetchUrl resolved with content
loadFetched(language, content) ==
    [path |-> "cache-refreshed", table |-> parseLangContent(content, language),
     io |-> {"write"}]

\* The catch block falling back to the cache only while it is valid
loadFailedFreshOnly(language) ==
    IF isCacheValid(language) /\ Truthy(readFromCache(language))
    THEN [path |-> "stale-fallback",
          table |-> parseLangContent(readFromCache(language)[1], language),
          io |-> {"stat", "read"}]
    ELSE [path |-> "cold-miss", table |-> EmptyMap, io |-> {"stat"}]

\* loadTranslations after fetchUrl rejected: the catch block.  readFromCache
\* reads the content file whenever it exists, also when what it reads is
\* empty or the read raises.
loadFailed(language) ==
    LET staleCache == readFromCache(language)
    IN  IF Truthy(staleCache)
        THEN [path |-> "stale-fallback",
              table |-> parseLangContent(staleCache[1], language),
              io |-> {"stat", "read"}]
        ELSE [path |-> "cold-miss", table |-> EmptyMap,
              io |-> IF existsSync(cacheFile[language]) THEN {"stat", "read"}
                     ELSE {"stat"}]

\* The catch block of loadTranslations entered because writeToCache raised,
\* on the content file as the failed write left it.
loadWriteFailed(language, cache) ==
    LET staleCache == readFromCacheOn(cache)
    IN  IF Truthy(staleCache)
        THEN [path |-> "stale-fallback",
              table |-> parseLangContent(staleCache[1], language),
              io |-> {"write", "stat", "read"}]
        ELSE [path |-> "cold-miss", table |-> EmptyMap,
              io |-> IF existsSync(cache) THEN {"write", "stat", "read"}
                     ELSE {"write", "stat"}]

\* A metadata file left empty or with the first part of its text only:
\* JSON.parse of it raises.
EmptyMetaJson == Metadata(FALSE, JsonAbsent)

\* How a writeFileSync of writeToCache can raise: opening the content file
\* or the metadata file raises (the file is as it was), the write raises
\* after the file was opened and truncated and before anything was written
\* (the file is left empty), or it raises part-way (the file is left with
\* the first part of the text).  The metadata file is written only after the
\* content file was.
FailedWrites ==
    {"contentOpen", "contentTruncated", "contentPartial", "metaOpen",
     "metaTruncated"}

\* The content files a writeFileSync of content can leave in place of the
\* file old when writeToCache raises at failedWrite
contentLeft(old, content, failedWrite) ==
    IF failedWrite = "contentOpen" THEN {old}
    ELSE IF failedWrite = "contentTruncated" THEN {File(<<>>)}
    ELSE IF failedWrite = "contentPartial"
    THEN {File(SubSeq(content, 1, n)) : n \in 1..(Len(content) - 1)}
    ELSE {File(content)}

\* The write writeToCache raises at because its target is a directory:
\* "none" when both files can be written.
writeRaises(language) ==
    IF cacheFile[language].kind = "unreadable" THEN "contentOpen"
    ELSE IF metaFile[language].kind = "unreadable" THEN "metaOpen"
    ELSE "none"

\* The cache files writeToCache leaves when it raises at failedWrite
writeToCacheFailed(language, content, failedWrite) ==
    /\ \E left \in contentLeft(cacheFile[language], content, failedWrite) :
          cacheFile' = [cacheFile EXCEPT ![language] = left]
    /\ metaFile' = [metaFile EXCEPT ![language] =
                       IF failedWrite = "metaTruncated" THEN File(EmptyMetaJson)
                       ELSE @]

\* writeToCache writing the content file only
writeToCacheContentOnly(language, content) ==
    /\ cacheFile' = [cacheFile EXCEPT ![language] = File(content)]
    /\ metaFile' = metaFile

\* writeToCache: both files, the metadata stamped with Date.now()
writeToCache(language, content) ==
    /\ cacheFile' = [cacheFile EXCEPT ![language] = File(content)]
    /\ metaFile' = [metaFile EXCEPT ![language] = File(MetaJson(now))]

\* clearCache unlinking nothing
clearCacheNothing(languages) ==
    /\ cacheFile' = cacheFile
    /\ metaFile' = metaFile

\* clearCache unlinking the content files and leaving the metadata files
clearCacheContentOnly(languages) ==
    /\ cacheFile' = [l \in Locales |->
                        IF l \in languages THEN NoFile ELSE cacheFile[l]]
    /\ metaFile' = metaFile

\* What clearCache does to the file system: it looks for the files and
\* unlinks those it finds.
clearCacheIo(languages) ==
    IF \E l \in languages : existsSync(cacheFile[l]) \/ existsSync(metaFile[l])
    THEN {"stat", "unlink"}
    ELSE {"stat"}

\* The language codes of the model in the order Array.prototype.sort gives
\* strings: by their UTF-16 code units.
CodeOrder ==
    <<"ar_SA", "bg_BG", "cs_CZ", "da_DK", "de_DE", "el_GR", "en_GB", "en_US",
      "es_ES", "es_MX", "fi_FI", "fr_CA", "fr_FR", "hu_HU", "id_ID", "it_IT",
      "ja_JP", "ko_KR", "nb_NO", "nl_NL", "pl_PL", "pt_BR", "pt_PT", "ro_RO",
      "ru_RU", "sk_SK", "sv_SE", "th_TH", "tr_TR", "uk_UA", "vi_VN", "zh_CN",
      "zh_TW">>

\* Array.from(allLanguages).sort(): the codes of the set, each once, in order
RECURSIVE sortFrom(_, _)
sortFrom(allLanguages, n) ==
    IF n > Len(CodeOrder) THEN <<>>
    ELSE IF CodeOrder[n] \in allLanguages
    THEN <<CodeOrder[n]>> \o sortFrom(allLanguages, n + 1)
    ELSE sortFrom(allLanguages, n + 1)

sort(allLanguages) == sortFrom(allLanguages, 1)

\* The files clearCache visits, in its order: the content file and the
\* metadata file of the language, or the entries of the cache directory as
\* readdirSync lists them, by name.
clearCacheFiles(languages) ==
    LET codes == sort(languages)
    IN  [i \in 1..(2 * Len(codes)) |->
            <<codes[(i + 1) \div 2], IF i % 2 = 1 THEN "content" ELSE "meta">>]

\* clearCache from the i-th file it visits on: a file that exists is
\* unlinked, and unlinkSync of a directory raises, which ends the call with
\* the files after it left in place.
RECURSIVE unlinkFrom(_, _, _, _)
unlinkFrom(files, i, cache, meta) ==
    IF i > Len(files)
    THEN [cacheFile |-> cache, metaFile |-> meta, threw |-> FALSE]
    ELSE LET language == files[i][1]
             isContent == files[i][2] = "content"
             file == IF isContent THEN cache[language] ELSE meta[language]
         IN  IF ~existsSync(file)
             THEN unlinkFrom(files, i + 1, cache, meta)
             ELSE IF file.kind = "unreadable"
             THEN [cacheFile |-> cache, metaFile |-> meta, threw |-> TRUE]
             ELSE IF isContent
             THEN unlinkFrom(files, i + 1,
                             [cache EXCEPT ![language] = NoFile], meta)
             ELSE unlinkFrom(files, i + 1, cache,
                             [meta EXCEPT ![language] = NoFile])

\* clearCache raises: a file it comes to is a directory
clearCacheRaises(languages) ==
    unlinkFrom(clearCacheFiles(languages), 1, cacheFile, metaFile).threw

\* clearCache(language) for a language, clearCache() for all
clearCache(languages) ==
    LET cleared == unlinkFrom(clearCacheFiles(languages), 1, cacheFile, metaFile)
    IN  /\ cacheFile' = cleared.cacheFile
        /\ metaFile' = cleared.metaFile

\* The bodies fetched are those of the content files clearCache left.
forgetCleared(languages) ==
    fetched' = [l \in Locales |->
                  IF l \in languages /\ ~existsSync(cacheFile'[l]) THEN None
                  ELSE fetched[l]]

\* The outcome of a call clearCache raised in
Raised(op) == [op |-> op, arg |-> "", outcome |-> "raised", fired |-> 0]

IdleLoad == [pc |-> "idle", language |-> ""]

\* The record of a step: the call (name, id), what loadTranslations did in it
\* (language, path, table, io), and what the manager operation did in it
\* (op, arg, outcome, fired = notifications fired).
NoLoad == [language |-> "", path |-> "none", table |-> EmptyMap, io |-> {}]

NoOp == [op |-> "none", arg |-> "", outcome |-> "none", fired |-> 0]

\* What an observer of the extension saw when a refresh had completed.  A
\* specification that observes starts with NoRefresh(TRUE), one that does
\* not with NoRefresh(FALSE).
NoRefresh(observed) ==
    [observed |-> observed, completed |-> FALSE, translations |-> EmptyMap,
     availableLanguages |-> <<>>, baseline |-> NoLoad, provider |-> FALSE,
     settings |-> <<>>, fetched |-> <<>>]

\* The state a refresh has just completed in, as the observer keeps it: the
\* table and the languages the manager shows, the baseline loadTranslations
\* returned, whether there is a provider, the settings and the files of the
\* workspace, and the bodies fetched last.
CompletedRefresh ==
    [observed |-> TRUE, completed |-> TRUE, translations |-> translations,
     availableLanguages |-> availableLanguages,
     baseline |-> [language |-> ev.language, path |-> ev.path,
                   table |-> ev.table, io |-> ev.io],
     provider |-> vanillaProvider,
     settings |-> workspaceVars, fetched |-> fetched]

\* The completed refresh the observer saw last, before the step being taken.
lastRefresh ==
    IF ev.last.observed /\ ev.op # "none" /\ ev.outcome = "completed"
    THEN CompletedRefresh
    ELSE ev.last

EventWith(name, id, load, op, last) ==
    [name |-> name, id |-> id, language |-> load.language, path |-> load.path,
     table |-> load.table, io |-> load.io, op |-> op.op, arg |-> op.arg,
     outcome |-> op.outcome, fired |-> op.fired, last |-> last]

Event(name, id, load, op) == EventWith(name, id, load, op, lastRefresh)

\* The record before the first step
InitEvent(observed) == EventWith("init", "", NoLoad, NoOp, NoRefresh(observed))

WithLanguage(load, language) ==
    [language |-> language, path |-> load.path, table |-> load.table,
     io |-> load.io]

(***************************************************************************)
(* Resource pack discovery (resourcePackScanner.ts)                        *)
(***************************************************************************)

Roots == {"A", "B", "C"}

\* manifest.json as JSON.parse reads it: parses = the text is JSON,
\* modules = the type of each module, or None without a modules array.  An
\* element of modules that is null has no type: NullModule stands for it.
Manifest(parses, modules) == File([parses |-> parses, modules |-> modules])

NullModule == "null"

\* modules.some(module => module.type === 'resources') from element i on:
\* "found", "none", or "threw" when it reads the type of a null element.
RECURSIVE someResources(_, _)
someResources(modules, i) ==
    IF i > Len(modules) THEN "none"
    ELSE IF modules[i] = NullModule THEN "threw"
    ELSE IF modules[i] = "resources" THEN "found"
    ELSE someResources(modules, i + 1)

\* isResourcePackManifest: any exception is caught and gives false.
isResourcePackManifest(manifest) ==
    IF manifest.kind # "file" \/ ~manifest.content.parses
    THEN FALSE                                  \* catch { return false }
    ELSE IF manifest.content.modules = None THEN FALSE
    ELSE someResources(manifest.content.modules[1], 1) = "found"

\* scanForResourcePacks: the root itself, if it is a resource pack
scanForResourcePacks(rootPath) ==
    IF existsSync(packFiles[rootPath].manifest)
       /\ isResourcePackManifest(packFiles[rootPath].manifest)
    THEN <<[path |-> rootPath, hasTexts |-> packFiles[rootPath].texts # "missing"]>>
    ELSE <<>>

RECURSIVE ScanAll(_, _)
ScanAll(paths, i) ==
    IF i > Len(paths) THEN <<>>
    ELSE scanForResourcePacks(paths[i]) \o ScanAll(paths, i + 1)

scanWorkspaceForResourcePacks == ScanAll(workspaceFolders, 1)

scanConfiguredPaths(additionalPaths) == ScanAll(additionalPaths, 1)

\* The loop over allPacks keeping every pack
UniqueByPathNone(allPacks, i, uniquePacks) == allPacks

\* The loop over allPacks: a Map keyed by path keeps the first pack per path
RECURSIVE UniqueByPath(_, _, _)
UniqueByPath(allPacks, i, uniquePacks) ==
    IF i > Len(allPacks) THEN uniquePacks
    ELSE IF \E j \in DOMAIN uniquePacks : uniquePacks[j].path = allPacks[i].path
    THEN UniqueByPath(allPacks, i + 1, uniquePacks)
    ELSE UniqueByPath(allPacks, i + 1, Append(uniquePacks, allPacks[i]))

\* getAllResourcePacks with the configured paths ahead of the workspace
getAllResourcePacksConfiguredFirst ==
    LET workspacePacks == scanWorkspaceForResourcePacks
        configuredPacks == scanConfiguredPaths(cfgResourcePackPaths)
    IN  UniqueByPath(configuredPacks \o workspacePacks, 1, <<>>)

getAllResourcePacks ==
    LET workspacePacks == scanWorkspaceForResourcePacks
        configuredPacks == scanConfiguredPaths(cfgResourcePackPaths)
    IN  UniqueByPath(workspacePacks \o configuredPacks, 1, <<>>)

(***************************************************************************)
(* langParser.ts                                                           *)
(***************************************************************************)

LangFilePath(resourcePackPath, language) == <<resourcePackPath, "texts", language>>

\* parseLangFile: threw = readFileSync raised
parseLangFile(file, filePath) ==
    IF ~existsSync(file) THEN [threw |-> FALSE, table |-> EmptyMap]
    ELSE IF file.kind # "file" THEN [threw |-> TRUE, table |-> EmptyMap]
    ELSE [threw |-> FALSE,
          table |-> ParseFrom(SplitLines(file.content), 0, EmptyMap, filePath)]

\* loadTranslations(resourcePackPath, language)
loadTranslations(resourcePackPath, language) ==
    parseLangFile(packFiles[resourcePackPath].lang[language],
                  LangFilePath(resourcePackPath, language))

\* findAvailableLanguages(textsDir): threw = readdirSync raised
findAvailableLanguages(resourcePackPath) ==
    IF packFiles[resourcePackPath].texts = "missing"
    THEN [threw |-> FALSE, languages |-> {}]
    ELSE IF packFiles[resourcePackPath].texts # "dir"
    THEN [threw |-> TRUE, languages |-> {}]
    ELSE [threw |-> FALSE,
          languages |-> {l \in Locales :
                            existsSync(packFiles[resourcePackPath].lang[l])}]

(***************************************************************************)
(* TranslationManager (translationManager.ts)                              *)
(***************************************************************************)

Undefined == "undefined"

\* loadConfiguration: config.get('defaultLanguage') ?? 'en_US', the value it
\* assigns to currentLanguage when the setting is defaultLanguage
loadConfigurationOn(defaultLanguage) ==
    IF defaultLanguage = Undefined THEN "en_US" ELSE defaultLanguage

loadConfiguration == loadConfigurationOn(cfgDefaultLanguage)

\* VanillaTranslationProvider.getAvailableLanguages: the list it resolves to
getAvailableLanguages ==
    <<"en_US", "en_GB", "de_DE", "es_ES", "es_MX", "fr_FR", "fr_CA",
      "it_IT", "ja_JP", "ko_KR", "nl_NL", "pl_PL", "pt_BR", "pt_PT",
      "ru_RU", "zh_CN", "zh_TW", "tr_TR", "uk_UA", "ar_SA", "bg_BG",
      "cs_CZ", "da_DK", "el_GR", "fi_FI", "hu_HU", "id_ID", "nb_NO",
      "ro_RO", "sk_SK", "sv_SE", "th_TH", "vi_VN">>

\* The vanilla block adding the baseline to the table of the refresh before
vanillaBlockKeeping(vanillaTranslations) ==
    [translations |-> Spread(translations, vanillaTranslations), languages |-> {}]

\* The vanilla block leaving this.translations as refresh cleared it
vanillaBlockDropped(vanillaTranslations) ==
    [translations |-> EmptyMap, languages |-> {}]

\* The lines of refresh after the baseline has been awaited:
\* this.translations = { ...vanillaTranslations }.  getAvailableLanguages is
\* async and refresh does not await it, so vanillaLanguages is a Promise,
\* forEach on it raises TypeError, and the catch of refresh swallows that:
\* the provider's languages are never added.
vanillaBlock(vanillaTranslations) ==
    [translations |-> Spread(EmptyMap, vanillaTranslations), languages |-> {}]

\* The loop of refresh over this.resourcePacks, from pack i on.
RECURSIVE packLoop(_, _, _, _, _)
packLoop(packs, i, language, table, allLanguages) ==
    IF i > Len(packs)
    THEN [threw |-> FALSE, translations |-> table, languages |-> allLanguages]
    ELSE IF ~packs[i].hasTexts
    THEN packLoop(packs, i + 1, language, table, allLanguages)
    ELSE LET found == findAvailableLanguages(packs[i].path)
             packTranslations == loadTranslations(packs[i].path, language)
         IN  IF found.threw \/ packTranslations.threw
             THEN [threw |-> TRUE, translations |-> table, languages |-> allLanguages]
             ELSE packLoop(packs, i + 1, language,
                           Spread(table, packTranslations.table),
                           allLanguages \cup found.languages)

\* refresh from the line after the await to its end, given the fields it
\* reads: the state of the manager it leaves.
refreshTail(hasProvider, vanillaTranslations, packs, language, langsBefore) ==
    LET base == IF hasProvider THEN vanillaBlock(vanillaTranslations)
                ELSE [translations |-> EmptyMap, languages |-> {}]
        merged == packLoop(packs, 1, language, base.translations, base.languages)
    IN  [threw |-> merged.threw,
         translations |-> merged.translations,
         availableLanguages |-> IF merged.threw THEN langsBefore
                                ELSE sort(merged.languages)]

\* s.toLowerCase(), for the letters A to Z
UpperCase == <<"A", "B", "C", "D", "E", "F", "G", "H", "I", "J", "K", "L", "M",
               "N", "O", "P", "Q", "R", "S", "T", "U", "V", "W", "X", "Y", "Z">>
LowerCase == <<"a", "b", "c", "d", "e", "f", "g", "h", "i", "j", "k", "l", "m",
               "n", "o", "p", "q", "r", "s", "t", "u", "v", "w", "x", "y", "z">>

toLowerCase(s) ==
    [i \in DOMAIN s |->
        IF \E n \in DOMAIN UpperCase : UpperCase[n] = s[i]
        THEN LowerCase[CHOOSE n \in DOMAIN UpperCase : UpperCase[n] = s[i]]
        ELSE s[i]]

\* s.includes(q)
includes(s, q) ==
    \E i \in 0..(Len(s) - Len(q)) : SubSeq(s, i + 1, i + Len(q)) = q

\* searchTranslations(query, limit = 50)
DefaultLimit == 50

\* The loop of searchTranslations over Object.values(this.translations), from
\* entry i on: a matching entry is pushed, and then the loop breaks if
\* results.length >= limit.
RECURSIVE searchFrom(_, _, _, _, _)
searchFrom(entries, i, lowerQuery, limit, results) ==
    IF i > Len(entries) THEN results
    ELSE IF /\ ~includes(toLowerCase(entries[i].key), lowerQuery)
            /\ ~includes(toLowerCase(entries[i].value), lowerQuery)
    THEN searchFrom(entries, i + 1, lowerQuery, limit, results)
    ELSE IF Len(results) + 1 >= limit
    THEN Append(results, entries[i])
    ELSE searchFrom(entries, i + 1, lowerQuery, limit, Append(results, entries[i]))

\* The keys of the model are no integers, so Object.values lists the entries
\* in insertion order.
searchTranslations(query, limit) ==
    searchFrom(translations, 1, toLowerCase(query), limit, <<>>)

\* Property names every object literal inherits from Object.prototype:
\* constructor, __defineGetter__, __defineSetter__, hasOwnProperty,
\* __lookupGetter__, __lookupSetter__, isPrototypeOf, propertyIsEnumerable,
\* toString, valueOf, __proto__, toLocaleString
ObjectPrototype ==
    { <<"c", "o", "n", "s", "t", "r", "u", "c", "t", "o", "r">>,
      <<"_", "_", "d", "e", "f", "i", "n", "e", "G", "e", "t", "t", "e",
        "r", "_", "_">>,
      <<"_", "_", "d", "e", "f", "i", "n", "e", "S", "e", "t", "t", "e",
        "r", "_", "_">>,
      <<"h", "a", "s", "O", "w", "n", "P", "r", "o", "p", "e", "r", "t",
        "y">>,
      <<"_", "_", "l", "o", "o", "k", "u", "p", "G", "e", "t", "t", "e",
        "r", "_", "_">>,
      <<"_", "_", "l", "o", "o", "k", "u", "p", "S", "e", "t", "t", "e",
        "r", "_", "_">>,
      <<"i", "s", "P", "r", "o", "t", "o", "t", "y", "p", "e", "O", "f">>,
      <<"p", "r", "o", "p", "e", "r", "t", "y", "I", "s", "E", "n", "u",
        "m", "e", "r", "a", "b", "l", "e">>,
      <<"t", "o", "S", "t", "r", "i", "n", "g">>,
      <<"v", "a", "l", "u", "e", "O", "f">>,
      <<"_", "_", "p", "r", "o", "t", "o", "_", "_">>,
      <<"t", "o", "L", "o", "c", "a", "l", "e", "S", "t", "r", "i", "n",
        "g">> }

\* The value found under an inherited name (a function, the prototype
\* object for __proto__): no TranslationEntry.
Inherited(key) == [inherited |-> key]

\* this.translations[key]: the own entry, else the inherited member, else
\* undefined
getTranslation(key) ==
    IF Has(translations, key) THEN Some(Get(translations, key))
    ELSE IF key \in ObjectPrototype THEN Some(Inherited(key))
    ELSE None

\* key in this.translations: own and inherited properties
hasTranslation(key) == Has(translations, key) \/ key \in ObjectPrototype

getCurrentLanguage == currentLanguage

\* A call of refresh: idle, suspended on the fetch of its baseline
\* (awaitLoad), or suspended on a baseline that loadTranslations returned
\* without fetching (resume): the rest of refresh then runs as a microtask,
\* after the synchronous run that called it and after the turn - 1
\* microtasks queued before it.
IdleCall == [pc |-> "idle", op |-> "none", arg |-> "", load |-> NoLoad, turn |-> 0]

\* No rest of a refresh is queued as a microtask: timers and network
\* callbacks run only then.
NoMicrotask == \A id \in CallIds : calls[id].pc # "resume"

\* A call id no call in flight is using, and the one a new call takes: which
\* of the free ids it takes is immaterial.
IsFree(id) == calls[id].pc = "idle" /\ loads[id].pc = "idle"

FreeId == CHOOSE id \in CallIds : IsFree(id)

\* refresh from the line after the await to its end, as a step: the fields
\* are assigned, and the notification fires unless a pack raised.
finishRefresh(name, id, load, op, arg, hasProvider, packs, language, langsBefore) ==
    \E tail \in {refreshTail(hasProvider, load.table, packs, language, langsBefore)} :
        /\ translations' = tail.translations
        /\ availableLanguages' = tail.availableLanguages
        /\ ev' = Event(name, id, load,
                       [op |-> op, arg |-> arg,
                        outcome |-> IF tail.threw THEN "threw" ELSE "completed",
                        fired |-> IF tail.threw THEN 0 ELSE 1])

\* refresh() from its first line, called by op(arg) in step name, with the
\* defaultLanguage setting and the cache files as the step left them (meta,
\* cache; io0 = what op did to them).  With a provider it runs to the await
\* of loadTranslations, leaving the table empty; without one it has no await
\* and runs to its end.
refresh(name, id, op, arg, defaultLanguage, meta, cache, io0) ==
    /\ IsFree(id)
    /\ id = FreeId
    /\ \E language \in {loadConfigurationOn(defaultLanguage)},
          packs \in {getAllResourcePacks} :
       \E load \in {IF vanillaProvider
                    THEN WithLanguage(loadStartOn(enabled, meta[language],
                                                  cache[language], language),
                                      language)
                    ELSE NoLoad} :
       \E started \in {[language |-> load.language, path |-> load.path,
                        table |-> load.table, io |-> load.io \cup io0]} :
        /\ currentLanguage' = language
        /\ resourcePacks' = packs
        /\ IF load.path = "fetching"
           THEN /\ translations' = EmptyMap
                /\ availableLanguages' = <<>>
                /\ calls' = [calls EXCEPT ![id] =
                                [pc |-> "awaitLoad", op |-> op, arg |-> arg,
                                 load |-> NoLoad, turn |-> 0]]
                /\ loads' = [loads EXCEPT ![id] =
                                [pc |-> "fetching", language |-> language]]
                /\ ev' = Event(name, id, started,
                               [op |-> op, arg |-> arg, outcome |-> "suspended",
                                fired |-> 0])
           ELSE IF vanillaProvider
           THEN /\ translations' = EmptyMap
                /\ availableLanguages' = <<>>
                /\ calls' = [calls EXCEPT ![id] =
                                [pc |-> "resume", op |-> op, arg |-> arg,
                                 load |-> started,
                                 turn |-> 1 + Cardinality({c \in CallIds :
                                                calls[c].pc = "resume"})]]
                /\ loads' = loads
                /\ ev' = Event(name, id, started,
                               [op |-> op, arg |-> arg, outcome |-> "suspended",
                                fired |-> 0])
           ELSE /\ finishRefresh(name, id, started, op, arg, FALSE,
                                 packs, language, <<>>)
                /\ UNCHANGED <<calls, loads>>

\* loadTranslations of call id returns load: the call of the provider is
\* over, and the refresh awaiting it runs to its end.
loadReturns(name, id, load, arg) ==
    /\ loads' = [loads EXCEPT ![id] = IdleLoad]
    /\ IF calls[id].pc = "awaitLoad"
       THEN /\ finishRefresh(name, id, load, calls[id].op,
                             IF name = "writeFailed" THEN arg ELSE calls[id].arg,
                             TRUE, resourcePacks, currentLanguage,
                             availableLanguages)
            /\ calls' = [calls EXCEPT ![id] = IdleCall]
       ELSE /\ ev' = Event(name, id, load, [NoOp EXCEPT !.arg = arg])
            /\ UNCHANGED <<translations, availableLanguages, calls>>

(***************************************************************************)
(* Steps of the manager: commands and event handlers of extension.ts       *)
(***************************************************************************)

\* initVanillaProvider: new VanillaTranslationProvider, whose constructor
\* reads useVanillaTranslations
InitVanillaProvider ==
    /\ ~vanillaProvider
    /\ vanillaProvider' = TRUE
    /\ enabled' = cfgUseVanilla
    /\ ev' = Event("initVanillaProvider", "", NoLoad, NoOp)
    /\ UNCHANGED <<now, cacheVars, workspaceVars, loads, translations,
                   currentLanguage, resourcePacks, availableLanguages, calls>>

\* refresh(), as activate, the refresh command, the workspace-folder handler
\* and the .lang file watcher call it
Refresh(id) ==
    /\ refresh("refresh", id, "refresh", "", cfgDefaultLanguage, metaFile,
               cacheFile, {})
    /\ UNCHANGED <<now, cacheVars, workspaceVars, enabled, vanillaProvider>>

\* The defaultLanguage setting changes and onDidChangeConfiguration calls
\* refresh()
ChangeDefaultLanguage(id, language) ==
    /\ cfgDefaultLanguage # language
    /\ cfgDefaultLanguage' = language
    /\ refresh("configuration", id, "refresh", "", language, metaFile,
               cacheFile, {})
    /\ UNCHANGED <<now, cacheVars, cfgResourcePackPaths, cfgUseVanilla,
                   workspaceFolders, packFiles, enabled, vanillaProvider>>

\* The useVanillaTranslations setting changes and onDidChangeConfiguration
\* calls refresh().  The handler is registered after initVanillaProvider; the
\* provider read the setting in its constructor and nothing reads it again.
ChangeUseVanilla(id, useVanilla) ==
    /\ vanillaProvider
    /\ cfgUseVanilla # useVanilla
    /\ cfgUseVanilla' = useVanilla
    /\ refresh("configuration", id, "refresh", "", cfgDefaultLanguage, metaFile,
               cacheFile, {})
    /\ UNCHANGED <<now, cacheVars, cfgDefaultLanguage, cfgResourcePackPaths,
                   workspaceFolders, packFiles, enabled, vanillaProvider>>

\* setLanguage(language): this.currentLanguage = language; await refresh().
\* The first line of refresh, loadConfiguration, assigns currentLanguage
\* again.
SetLanguage(id, language) ==
    /\ refresh("setLanguage", id, "setLanguage", language, cfgDefaultLanguage,
               metaFile, cacheFile, {})
    /\ UNCHANGED <<now, cacheVars, workspaceVars, enabled, vanillaProvider>>

\* clearVanillaCache(): clearCache() of every language, then refresh();
\* when clearCache raises, refresh is not called.
ClearVanillaCache(id) ==
    /\ vanillaProvider
    /\ clearCache(Locales)
    /\ forgetCleared(Locales)
    /\ IF clearCacheRaises(Locales)
       THEN /\ IsFree(id)
            /\ id = FreeId
            /\ ev' = Event("clearVanillaCache", id,
                           [NoLoad EXCEPT !.io = clearCacheIo(Locales)],
                           Raised("clearVanillaCache"))
            /\ UNCHANGED <<loads, translations, currentLanguage, resourcePacks,
                           availableLanguages, calls>>
       ELSE refresh("clearVanillaCache", id, "clearVanillaCache", "",
                    cfgDefaultLanguage, metaFile', cacheFile',
                    clearCacheIo(Locales))
    /\ UNCHANGED <<now, workspaceVars, enabled, vanillaProvider>>

\* The request of call id receives a response.  A redirect is followed with
\* a new request to the URL of its location header (ev.arg names it); a
\* resolved or rejected fetch lets loadTranslations run to its return, and
\* the refresh awaiting it run to its end.  After a 200 writeToCache raises
\* when the content file or the metadata file is a directory, and the catch
\* block of loadTranslations runs (step writeFailed, ev.arg the body).
Respond(id, response) ==
    /\ loads[id].pc = "fetching"
    /\ NoMicrotask
    /\ \E language \in {loads[id].language}, what \in {fetchUrl(response)} :
           IF what = "follow"
           THEN /\ loads' = loads
                /\ \E redirectUrl \in Urls :
                      ev' = Event("redirect", id,
                                  [language |-> language, path |-> "fetching",
                                   table |-> EmptyMap, io |-> {"fetch"}],
                                  [NoOp EXCEPT !.arg = redirectUrl])
                /\ UNCHANGED <<cacheVars, translations, availableLanguages,
                               calls>>
           ELSE IF what = "reject"
           THEN /\ UNCHANGED cacheVars
                /\ loadReturns("response", id,
                               WithLanguage(loadFailed(language), language), "")
           ELSE IF writeRaises(language) = "none"
           THEN /\ writeToCache(language, response.body)
                /\ fetched' = [fetched EXCEPT ![language] =
                                  Some([body |-> response.body, at |-> now])]
                /\ loadReturns("response", id,
                               WithLanguage(loadFetched(language, response.body),
                                            language), "")
           ELSE /\ writeToCacheFailed(language, response.body, writeRaises(language))
                /\ fetched' = fetched
                /\ loadReturns("writeFailed", id,
                               WithLanguage(loadWriteFailed(language,
                                                            cacheFile'[language]),
                                            language), response.body)
    /\ UNCHANGED <<now, workspaceVars, enabled, vanillaProvider,
                   currentLanguage, resourcePacks>>

\* The request of call id receives a 200 and a writeFileSync of writeToCache
\* raises although its target is no directory (disk full, file size limit,
\* no permission, cache directory removed), at failedWrite.  The exception
\* is caught by the catch block of loadTranslations; ev.arg is the body that
\* was fetched.
RespondWriteFails(id, response, failedWrite) ==
    /\ loads[id].pc = "fetching"
    /\ NoMicrotask
    /\ fetchUrl(response) = "resolve"
    /\ \E language \in {loads[id].language} :
          /\ writeRaises(language) = "none"
          /\ writeToCacheFailed(language, response.body, failedWrite)
          /\ fetched' = fetched
          /\ loadReturns("writeFailed", id,
                         WithLanguage(loadWriteFailed(language, cacheFile'[language]),
                                      language), response.body)
    /\ UNCHANGED <<now, workspaceVars, enabled, vanillaProvider,
                   currentLanguage, resourcePacks>>

\* The rest of the refresh of call id runs, as the microtask at the head of
\* the queue: it reads currentLanguage and resourcePacks as they are now.
Resume(id) ==
    /\ calls[id].pc = "resume"
    /\ calls[id].turn = 1
    /\ finishRefresh("resume", id, calls[id].load, calls[id].op, calls[id].arg,
                     TRUE, resourcePacks, currentLanguage, availableLanguages)
    /\ calls' = [c \in CallIds |->
                   IF c = id THEN IdleCall
                   ELSE IF calls[c].pc = "resume"
                   THEN [calls[c] EXCEPT !.turn = @ - 1]
                   ELSE calls[c]]
    /\ UNCHANGED <<now, cacheVars, workspaceVars, providerVars, vanillaProvider,
                   currentLanguage, resourcePacks>>

\* Time passes: Date.now() is later at a later call, within one synchronous
\* run as well as between two callbacks.
Tick(t) ==
    /\ t > now
    /\ now' = t
    /\ ev' = Event("tick", "", NoLoad, NoOp)
    /\ UNCHANGED <<cacheVars, workspaceVars, enabled, loads, vanillaProvider,
                   translations, currentLanguage, resourcePacks,
                   availableLanguages, calls>>

(***************************************************************************)
(* Steps of the provider called on its own                                 *)
(***************************************************************************)

\* loadTranslations(language)
Load(id, language) ==
    /\ IsFree(id)
    /\ id = FreeId
    /\ \E load \in {WithLanguage(loadStart(language), language)} :
           /\ loads' = IF load.path = "fetching"
                       THEN [loads EXCEPT ![id] =
                               [pc |-> "fetching", language |-> language]]
                       ELSE loads
           /\ ev' = Event("load", id, load, NoOp)
    /\ UNCHANGED <<now, cacheVars, workspaceVars, enabled, vanillaProvider,
                   translations, currentLanguage, resourcePacks,
                   availableLanguages, calls>>

\* clearCache(language), and clearCache() for languages = Locales
ClearCache(languages) ==
    /\ clearCache(languages)
    /\ forgetCleared(languages)
    /\ ev' = Event("clearCache", "",
                   [language |-> IF languages = Locales THEN ""
                                 ELSE CHOOSE l \in languages : TRUE,
                    path |-> "none", table |-> EmptyMap,
                    io |-> clearCacheIo(languages)],
                   IF clearCacheRaises(languages) THEN Raised("none") ELSE NoOp)
    /\ UNCHANGED <<now, workspaceVars, enabled, loads, vanillaProvider,
                   translations, currentLanguage, resourcePacks,
                   availableLanguages, calls>>

\* forceRefresh(language): clearCache(language), then loadTranslations
\* (language) on the cache just cleared; when clearCache raises,
\* loadTranslations is not called.
ForceRefresh(id, language) ==
    /\ IsFree(id)
    /\ id = FreeId
    /\ clearCache({language})
    /\ forgetCleared({language})
    /\ \E load \in {IF clearCacheRaises({language})
                    THEN WithLanguage(NoLoad, language)
                    ELSE WithLanguage(loadStartOn(enabled, metaFile'[language],
                                                  cacheFile'[language], language),
                                      language)} :
           /\ loads' = IF load.path = "fetching"
                       THEN [loads EXCEPT ![id] =
                               [pc |-> "fetching", language |-> language]]
                       ELSE loads
           /\ ev' = Event("forceRefresh", id,
                          [load EXCEPT !.io = @ \cup clearCacheIo({language})],
                          IF clearCacheRaises({language}) THEN Raised("none")
                          ELSE NoOp)
    /\ UNCHANGED <<now, workspaceVars, enabled, vanillaProvider,
                   translations, currentLanguage, resourcePacks,
                   availableLanguages, calls>>

\* setEnabled(enabled)
SetEnabled(b) ==
    /\ enabled # b
    /\ enabled' = b
    /\ ev' = Event("setEnabled", "", NoLoad, NoOp)
    /\ UNCHANGED <<now, cacheVars, workspaceVars, loads, vanillaProvider,
                   translations, currentLanguage, resourcePacks,
                   availableLanguages, calls>>

(***************************************************************************)
(* Specifications                                                          *)
(***************************************************************************)

\* Pack files: "k=A\nj=A", "k=B", "k=C", "k=D"
LangA == <<"k", "=", "A", "\n", "j", "=", "A">>
LangB == <<"k", "=", "B">>
LangC == <<"k", "=", "C">>
LangD == <<"k", "=", "D">>

ResourcesManifest == Manifest(TRUE, Some(<<"resources">>))

Pack(manifest, texts, enUS, deDE) ==
    [manifest |-> manifest, texts |-> texts,
     lang |-> [l \in Locales |-> IF l = "en_US" THEN enUS ELSE deDE]]

GoodA == Pack(ResourcesManifest, "dir", File(LangA), NoFile)
GoodB == Pack(ResourcesManifest, "dir", File(LangB), File(LangD))
GoodC == Pack(ResourcesManifest, "dir", File(LangC), NoFile)

\* A root with nothing in it
NoPack == Pack(NoFile, "missing", NoFile, NoFile)

\* The files under the roots A, B and C
Under(a, b, c) ==
    [r \in Roots |-> IF r = "A" THEN a ELSE IF r = "B" THEN b ELSE c]

\* The directory layouts the workspace starts from, root C empty and the
\* roots A and B as
\*   two packs with texts;
\*   A with an en_US.lang that cannot be read;
\*   B with a texts entry that cannot be listed;
\*   A a pack without texts;
\*   A with .lang files but without a manifest.
Layouts ==
    { Under(GoodA, GoodB, NoPack),
      Under(Pack(ResourcesManifest, "dir", Unreadable, File(LangD)), GoodB, NoPack),
      Under(GoodA, Pack(ResourcesManifest, "notdir", NoFile, NoFile), NoPack),
      Under(Pack(ResourcesManifest, "missing", NoFile, NoFile), GoodB, NoPack),
      Under(Pack(NoFile, "dir", File(LangA), File(LangA)), GoodB, NoPack) }

\* The responses the requests of a session receive: a 200 with the body of
\* two keys, a 302 without location, a 404.
RefreshResponses ==
    {r \in Responses : /\ r.status \in {200, 302, 404}
                       /\ ~r.location
                       /\ r.status = 200 => Len(r.body) > Len(LangA)}

\* The clock readings of a session of the extension.
SessionTimes == {0, (CACHE_DURATION_HOURS + 1) * MsPerHour}

InitCommon ==
    /\ now = 0
    /\ cacheFile = [l \in Locales |-> NoFile]
    /\ metaFile = [l \in Locales |-> NoFile]
    /\ fetched = [l \in Locales |-> None]
    /\ cfgResourcePackPaths = <<>>
    /\ loads = [id \in CallIds |-> IdleLoad]
    /\ calls = [id \in CallIds |-> IdleCall]
    /\ ev = InitEvent(FALSE)
    /\ translations = EmptyMap
    /\ resourcePacks = <<>>
    /\ availableLanguages = <<>>

\* The extension after new TranslationManager(): the constructor has run
\* loadConfiguration.
Init ==
    /\ InitCommon
    /\ cfgDefaultLanguage \in Locales \cup {Undefined}
    /\ workspaceFolders = <<"A", "B">>
    /\ packFiles \in Layouts
    /\ cfgUseVanilla \in BOOLEAN
    /\ vanillaProvider = FALSE
    /\ enabled = TRUE
    /\ currentLanguage = loadConfiguration

Next ==
    \/ InitVanillaProvider
    \/ \E id \in CallIds : Refresh(id)
    \/ \E id \in CallIds, l \in Locales : ChangeDefaultLanguage(id, l)
    \/ \E id \in CallIds, b \in BOOLEAN : ChangeUseVanilla(id, b)
    \/ \E id \in CallIds, l \in Locales : SetLanguage(id, l)
    \/ \E id \in CallIds : ClearVanillaCache(id)
    \/ \E id \in CallIds, response \in RefreshResponses : Respond(id, response)
    \/ \E id \in CallIds : Resume(id)
    \/ \E t \in SessionTimes : Tick(t)

Spec == Init /\ [][Next]_vars

\* The extension over the two packs, activated (the provider is initialised),
\* with an observer of its completed refreshes.
InitTwice ==
    /\ now = 0
    /\ cacheFile = [l \in Locales |-> NoFile]
    /\ metaFile = [l \in Locales |-> NoFile]
    /\ fetched = [l \in Locales |-> None]
    /\ cfgDefaultLanguage \in Locales \cup {Undefined}
    /\ cfgResourcePackPaths = <<>>
    /\ cfgUseVanilla \in BOOLEAN
    /\ workspaceFolders = <<"A", "B">>
    /\ packFiles = Under(GoodA, GoodB, NoPack)
    /\ enabled = cfgUseVanilla
    /\ loads = [id \in CallIds |-> IdleLoad]
    /\ calls = [id \in CallIds |-> IdleCall]
    /\ ev = InitEvent(TRUE)
    /\ vanillaProvider = TRUE
    /\ currentLanguage = loadConfiguration
    /\ translations = EmptyMap
    /\ resourcePacks = <<>>
    /\ availableLanguages = <<>>

NextTwice ==
    \/ \E id \in CallIds : Refresh(id)
    \/ \E id \in CallIds, l \in Locales : ChangeDefaultLanguage(id, l)
    \/ \E id \in CallIds, b \in BOOLEAN : ChangeUseVanilla(id, b)
    \/ \E id \in CallIds : ClearVanillaCache(id)
    \/ \E id \in CallIds, response \in RefreshResponses : Respond(id, response)
    \/ \E id \in CallIds : Resume(id)
    \/ \E t \in SessionTimes : Tick(t)

SpecTwice == InitTwice /\ [][NextTwice]_vars

\* A VanillaTranslationProvider on its own, after its constructor.
InitProvider ==
    /\ InitCommon
    /\ cfgDefaultLanguage = Undefined
    /\ workspaceFolders = <<>>
    /\ packFiles = [r \in Roots |->
                      [manifest |-> NoFile, texts |-> "missing",
                       lang |-> [l \in Locales |-> NoFile]]]
    /\ cfgUseVanilla = TRUE
    /\ vanillaProvider = TRUE
    /\ enabled \in BOOLEAN
    /\ currentLanguage = loadConfiguration

\* The responses the requests of the provider receive: a 200 with each body,
\* a 302 with and without location, a 404.
ProviderResponses == {r \in Responses : r.status \in {200, 302, 404}}

NextProvider ==
    \/ \E id \in CallIds, l \in Locales : Load(id, l)
    \/ \E id \in CallIds, response \in ProviderResponses : Respond(id, response)
    \/ \E l \in Locales : ClearCache({l})
    \/ ClearCache(Locales)
    \/ \E id \in CallIds, l \in Locales : ForceRefresh(id, l)
    \/ \E b \in BOOLEAN : SetEnabled(b)
    \/ \E t \in TimePoints : Tick(t)

SpecProvider == InitProvider /\ [][NextProvider]_vars

\* loadTranslations and its requests alone, on a network that answers every
\* request: a request in flight eventually receives some response.
NextFetch ==
    \/ \E id \in CallIds, l \in Locales : Load(id, l)
    \/ \E id \in CallIds, response \in Responses : Respond(id, response)

SpecFetch ==
    /\ InitProvider
    /\ [][NextFetch]_vars
    /\ \A id \in CallIds : WF_vars(\E response \in Responses : Respond(id, response))

\* searchTranslations(query, limit) on the table
Search(query, limit) ==
    /\ ev' = [name |-> "search", query |-> query, limit |-> limit,
              results |-> searchTranslations(query, limit)]
    /\ UNCHANGED <<now, cacheVars, workspaceVars, providerVars, managerVars>>

\* Tables to search: "a=Wo\nb=wo\nc=x", "Wo=1\nq=2", "k=B", and the empty one
SearchContents ==
    { <<"a", "=", "W", "o", "\n", "b", "=", "w", "o", "\n", "c", "=", "x">>,
      <<"W", "o", "=", "1", "\n", "q", "=", "2">>,
      LangB,
      <<>> }

\* Queries: "", "WO", "wo", "a", "z"
Queries == { <<>>, <<"W", "O">>, <<"w", "o">>, <<"a">>, <<"z">> }

Limits == (-1)..3 \cup {DefaultLimit}

\* A manager whose table was loaded from one pack file, and its searches.
InitSearch ==
    /\ now = 0
    /\ cacheFile = [l \in Locales |-> NoFile]
    /\ metaFile = [l \in Locales |-> NoFile]
    /\ fetched = [l \in Locales |-> None]
    /\ cfgDefaultLanguage = Undefined
    /\ cfgResourcePackPaths = <<>>
    /\ cfgUseVanilla = TRUE
    /\ workspaceFolders = <<"A">>
    /\ packFiles = [r \in Roots |-> GoodA]
    /\ enabled = TRUE
    /\ loads = [id \in CallIds |-> IdleLoad]
    /\ calls = [id \in CallIds |-> IdleCall]
    /\ ev = InitEvent(FALSE)
    /\ vanillaProvider = FALSE
    /\ currentLanguage = loadConfiguration
    /\ resourcePacks = <<>>
    /\ availableLanguages = <<>>
    /\ \E content \in SearchContents :
          translations = ParseFrom(SplitLines(content), 0, EmptyMap,
                                   LangFilePath("A", "en_US"))

\* hasTranslation(key) and getTranslation(key) on the table
Lookup(key) ==
    /\ ev' = [name |-> "lookup", key |-> key, exists |-> hasTranslation(key),
              entry |-> getTranslation(key)]
    /\ UNCHANGED <<now, cacheVars, workspaceVars, providerVars, managerVars>>

\* Keys looked up: "a", "k", "z", "Wo" and each inherited name
LookupKeys ==
    { <<"a">>, <<"k">>, <<"z">>, <<"W", "o">> } \cup ObjectPrototype

NextSearch ==
    \/ \E query \in Queries, limit \in Limits : Search(query, limit)
    \/ \E key \in LookupKeys : Lookup(key)

SpecSearch == InitSearch /\ [][NextSearch]_vars

\* getAllResourcePacks(), as refresh calls it
Discover ==
    /\ resourcePacks' = getAllResourcePacks
    /\ ev' = [name |-> "discover"]
    /\ UNCHANGED <<now, cacheVars, workspaceVars, providerVars, vanillaProvider,
                   translations, currentLanguage, availableLanguages, calls>>

\* The resourcePackPaths setting changes.
ChangeResourcePackPaths(paths) ==
    /\ cfgResourcePackPaths # paths
    /\ cfgResourcePackPaths' = paths
    /\ ev' = [name |-> "resourcePackPaths"]
    /\ UNCHANGED <<now, cacheVars, cfgDefaultLanguage, cfgUseVanilla,
                   workspaceFolders, packFiles, providerVars, managerVars>>

\* The longest list of workspace folders and of configured paths.
MaxPaths == 2

PathLists == UNION {[1..n -> Roots] : n \in 0..MaxPaths}

\* The manifest.json of a root: missing, a directory, not JSON, JSON without
\* a modules array, and modules arrays [], ["data"], ["data", "resources"],
\* [null, "resources"].
Manifests ==
    { NoFile, Unreadable, Manifest(FALSE, None), Manifest(TRUE, None),
      Manifest(TRUE, Some(<<>>)), Manifest(TRUE, Some(<<"data">>)),
      Manifest(TRUE, Some(<<"data", "resources">>)),
      Manifest(TRUE, Some(<<NullModule, "resources">>)) }

\* Root A with each manifest beside the resource pack B, and the two packs.
ScanLayouts ==
    { Under(Pack(m, "dir", File(LangA), NoFile), GoodB, NoPack) : m \in Manifests }
    \cup { Under(GoodA, GoodB, NoPack) }

InitScan ==
    /\ now = 0
    /\ cacheFile = [l \in Locales |-> NoFile]
    /\ metaFile = [l \in Locales |-> NoFile]
    /\ fetched = [l \in Locales |-> None]
    /\ cfgDefaultLanguage = Undefined
    /\ cfgResourcePackPaths = <<>>
    /\ cfgUseVanilla = TRUE
    /\ workspaceFolders \in PathLists
    /\ packFiles \in ScanLayouts
    /\ enabled = TRUE
    /\ loads = [id \in CallIds |-> IdleLoad]
    /\ calls = [id \in CallIds |-> IdleCall]
    /\ ev = [name |-> "init"]
    /\ vanillaProvider = FALSE
    /\ currentLanguage = loadConfiguration
    /\ resourcePacks = <<>>
    /\ availableLanguages = <<>>
    /\ translations = EmptyMap

NextScan ==
    \/ Discover
    \/ \E paths \in PathLists : ChangeResourcePackPaths(paths)

SpecScan == InitScan /\ [][NextScan]_vars

\* parseLangFile(getLangFilePath('A', 'en_US'))
ParseLangFile ==
    \E parsed \in {loadTranslations("A", "en_US")} :
        /\ translations' = parsed.table
        /\ ev' = [name |-> "parseLangFile", threw |-> parsed.threw,
                  file |-> packFiles["A"].lang["en_US"]]
        /\ UNCHANGED <<now, cacheVars, workspaceVars, providerVars, vanillaProvider,
                       currentLanguage, resourcePacks, availableLanguages, calls>>

\* parseLangContent(content, 'en_US') of the cached content
ParseLangContent ==
    /\ cacheFile["en_US"].kind = "file"
    /\ translations' = parseLangContent(cacheFile["en_US"].content, "en_US")
    /\ ev' = [name |-> "parseLangContent", threw |-> FALSE,
              file |-> cacheFile["en_US"]]
    /\ UNCHANGED <<now, cacheVars, workspaceVars, providerVars, vanillaProvider,
                   currentLanguage, resourcePacks, availableLanguages, calls>>

\* The longest file, in lines.
MaxLines == 2

\* Lines of a .lang file: "k=v", "k=w ", " k=v", "k = v", "a=b=c", "j=x\r",
\* "k=", "=v", "k", "#c=1", " ## c=1", "__proto__=x" and the empty line.
ParseLines ==
    { <<"k", "=", "v">>, <<"k", "=", "w", " ">>, <<" ", "k", "=", "v">>,
      <<"k", " ", "=", " ", "v">>, <<"a", "=", "b", "=", "c">>,
      <<"j", "=", "x", "\r">>, <<"k", "=">>, <<"=", "v">>, <<"k">>,
      <<"#", "c", "=", "1">>, <<" ", "#", "#", " ", "c", "=", "1">>,
      <<"_", "_", "p", "r", "o", "t", "o", "_", "_", "=", "x">>, <<>> }

\* lines.join('\n')
RECURSIVE JoinLines(_)
JoinLines(lines) ==
    IF Len(lines) = 1 THEN lines[1]
    ELSE lines[1] \o <<"\n">> \o JoinLines(Tail(lines))

ParseContents ==
    { JoinLines(lines) : lines \in UNION {[1..n -> ParseLines] : n \in 1..MaxLines} }

InitParse ==
    /\ now = 0
    /\ \E content \in ParseContents :
          /\ cacheFile = [l \in Locales |-> IF l = "en_US" THEN File(content) ELSE NoFile]
          /\ \E file \in {NoFile, Unreadable, File(content)} :
                packFiles = Under(Pack(ResourcesManifest, "dir", file, NoFile),
                                  GoodB, NoPack)
    /\ metaFile = [l \in Locales |-> NoFile]
    /\ fetched = [l \in Locales |-> None]
    /\ cfgDefaultLanguage = Undefined
    /\ cfgResourcePackPaths = <<>>
    /\ cfgUseVanilla = TRUE
    /\ workspaceFolders = <<"A">>
    /\ enabled = TRUE
    /\ loads = [id \in CallIds |-> IdleLoad]
    /\ calls = [id \in CallIds |-> IdleCall]
    /\ ev = [name |-> "init"]
    /\ vanillaProvider = FALSE
    /\ currentLanguage = loadConfiguration
    /\ resourcePacks = <<>>
    /\ availableLanguages = <<>>
    /\ translations = EmptyMap

NextParse == ParseLangFile \/ ParseLangContent

SpecParse == InitParse /\ [][NextParse]_vars

\* The strings a metadata file has for fetchedAt: text that is no number,
\* and each form of numeric text the subtraction converts, with the
\* fractions 7e-9 and 8e-9 on the two sides of half the distance of the
\* doubles next to the cache duration.
FetchedAtStrings ==
    { <<"x">>, <<"0">>, <<" ">>, <<" ", "1", "2", " ">>, <<"+", "5">>,
      <<"-", "5">>, <<"1", "e", "3">>, <<"1", ".", "5">>,
      <<"0", "x", "1", "0">>, <<"-", "0", "x", "1", "0">>, <<"1", "e">>,
      <<"I", "n", "f", "i", "n", "i", "t", "y">>,
      <<"-", "I", "n", "f", "i", "n", "i", "t", "y">>,
      <<"7", "e", "-", "9">>, <<"8", "e", "-", "9">> }

\* The metadata file of a locale: missing, a directory, text that is not
\* JSON, the JSON texts {}, {"fetchedAt":null}, {"fetchedAt":true},
\* {"fetchedAt":false}, {"fetchedAt":[]}, {"fetchedAt":{}} and
\* {"fetchedAt":s} for each string s above, and the file writeToCache wrote
\* at time 0.
MetaFiles ==
    { NoFile, Unreadable,
      File(Metadata(FALSE, JsonAbsent)),
      File(Metadata(TRUE, JsonAbsent)),
      File(Metadata(TRUE, JsonNull)),
      File(Metadata(TRUE, JsonTrue)),
      File(Metadata(TRUE, JsonFalse)),
      File(Metadata(TRUE, JsonEmptyArray)),
      File(Metadata(TRUE, JsonObject)),
      File(MetaJson(0)) }
    \cup {File(Metadata(TRUE, JsonString(s))) : s \in FetchedAtStrings}

\* The content file of a locale: missing, a directory, and each content.
CacheFiles == {NoFile, Unreadable} \cup {File(c) : c \in Contents}

\* An enabled provider over a cache directory left by earlier sessions, at
\* the time of the oldest record, at the end of the cache duration or more
\* than the cache duration after it.
InitCache ==
    /\ now \in SessionTimes \cup {CACHE_DURATION_HOURS * MsPerHour}
    /\ cacheFile \in [Locales -> CacheFiles]
    /\ metaFile \in [Locales -> MetaFiles]
    /\ cacheFile["de_DE"] \in {NoFile, Unreadable}
    /\ metaFile["de_DE"] = NoFile
    /\ fetched = [l \in Locales |-> None]
    /\ cfgDefaultLanguage = Undefined
    /\ cfgResourcePackPaths = <<>>
    /\ cfgUseVanilla = TRUE
    /\ workspaceFolders = <<>>
    /\ packFiles = [r \in Roots |->
                      [manifest |-> NoFile, texts |-> "missing",
                       lang |-> [l \in Locales |-> NoFile]]]
    /\ enabled = TRUE
    /\ loads = [id \in CallIds |-> IdleLoad]
    /\ calls = [id \in CallIds |-> IdleCall]
    /\ ev = InitEvent(FALSE)
    /\ vanillaProvider = TRUE
    /\ currentLanguage = loadConfiguration
    /\ resourcePacks = <<>>
    /\ availableLanguages = <<>>
    /\ translations = EmptyMap

NextCache ==
    \/ \E id \in CallIds : Load(id, "en_US")
    \/ \E id \in CallIds, response \in ProviderResponses : Respond(id, response)
    \/ ClearCache({"en_US"})
    \/ ClearCache(Locales)
    \/ \E id \in CallIds : ForceRefresh(id, "en_US")

SpecCache == InitCache /\ [][NextCache]_vars

\* A manager without provider over the packs A, B and C, each a workspace
\* folder, a configured path, both or neither, in every order.
InitOrder ==
    /\ now = 0
    /\ cacheFile = [l \in Locales |-> NoFile]
    /\ metaFile = [l \in Locales |-> NoFile]
    /\ fetched = [l \in Locales |-> None]
    /\ loads = [id \in CallIds |-> IdleLoad]
    /\ calls = [id \in CallIds |-> IdleCall]
    /\ ev = InitEvent(FALSE)
    /\ translations = EmptyMap
    /\ resourcePacks = <<>>
    /\ availableLanguages = <<>>
    /\ cfgDefaultLanguage = Undefined
    /\ workspaceFolders \in PathLists
    /\ cfgResourcePackPaths \in PathLists
    /\ packFiles = Under(GoodA, GoodB, GoodC)
    /\ cfgUseVanilla = TRUE
    /\ vanillaProvider = FALSE
    /\ enabled = TRUE
    /\ currentLanguage = loadConfiguration

NextOrder ==
    \/ \E id \in CallIds : Refresh(id)
    \/ \E id \in CallIds, l \in Locales : SetLanguage(id, l)

SpecOrder == InitOrder /\ [][NextOrder]_vars

\* The provider on a cache directory whose writes can fail, called for one
\* language.
NextWrite ==
    \/ \E id \in CallIds : Load(id, "en_US")
    \/ \E id \in CallIds, response \in ProviderResponses : Respond(id, response)
    \/ \E id \in CallIds, response \in ProviderResponses,
          failedWrite \in FailedWrites :
             RespondWriteFails(id, response, failedWrite)
    \/ ClearCache({"en_US"})

SpecWrite == InitProvider /\ [][NextWrite]_vars

(***************************************************************************)
(* Properties of the provider, checked under SpecProvider                  *)
(***************************************************************************)

CacheDurationMs == CACHE_DURATION_HOURS * 60 * 60 * 1000

\* A step in which loadTranslations was entered.
LoadEntered == ev.name = "load"

\* A step in which loadTranslations returned after its fetch rejected.
FetchFailed == ev.name = "response" /\ ev.path \in {"stale-fallback", "cold-miss"}

\* A CacheRecord of the language exists: content file and metadata file.
RecordExists(language) ==
    cacheFile[language].kind = "file" /\ metaFile[language].kind = "file"

\* C4: once a fetch of a language has resolved (and its cache has not been
\* cleared since), a loadTranslations of that language whose fetch fails
\* returns the table parsed from the content persisted last, whatever the
\* age of the cache, and never the empty table when that content has entries.
C4_StaleFallback ==
    (FetchFailed /\ fetched[ev.language] # None) =>
        /\ ev.table = parseLangContent(fetched[ev.language][1].body, ev.language)
        /\ (fetched[ev.language][1].body # <<>> => ev.table # EmptyMap)
        /\ ev.path = "stale-fallback" \/ fetched[ev.language][1].body = <<>>

\* Witness of C4: a failed fetch served with the two entries of a cache older
\* than the cache duration.
C4_Witness ==
    /\ FetchFailed
    /\ fetched[ev.language] # None
    /\ now - fetched[ev.language][1].at > CacheDurationMs
    /\ Keys(ev.table) = {<<"k">>, <<"j">>}

\* C7 (as claimed): a loadTranslations entered with the provider enabled while
\* a fresh CacheRecord of the language exists returns the table parsed from
\* the cached content and starts no fetch, whatever the content.
C7_FreshCacheHit ==
    (/\ LoadEntered
     /\ enabled
     /\ RecordExists(ev.language)
     /\ now - metaFile[ev.language].content.fetchedAt.num < CacheDurationMs) =>
        /\ ev.path = "cache-hit"
        /\ "fetch" \notin ev.io
        /\ loads[ev.id].pc = "idle"
        /\ ev.table = parseLangContent(cacheFile[ev.language].content, ev.language)

\* C8: a CacheRecord written at time T is fresh at time now exactly when
\* now - T is less than 24 hours.
C8_Freshness ==
    \A l \in Locales :
        fetched[l] # None =>
            (isCacheValid(l) <=> now - fetched[l][1].at < 24 * 60 * 60 * 1000)

\* Witness of C8: at T + 24h exactly the record of one language is stale,
\* while the record of the other, written 23 hours later, is fresh.
C8_Witness ==
    /\ fetched["en_US"] # None
    /\ fetched["de_DE"] # None
    /\ now - fetched["en_US"][1].at = 24 * 60 * 60 * 1000
    /\ ~isCacheValid("en_US")
    /\ now - fetched["de_DE"][1].at = 60 * 60 * 1000
    /\ isCacheValid("de_DE")

\* C9 (as claimed): a resolved fetch persists the body and a metadata record
\* stamped with the current time and returns the table parsed from the body;
\* a loadTranslations of the language entered within the cache duration after
\* it is a cache hit that returns the same table.
C9_RefreshedThenHit ==
    /\ (ev.name = "response" /\ ev.path = "cache-refreshed") =>
            /\ fetched[ev.language] # None
            /\ cacheFile[ev.language] = File(fetched[ev.language][1].body)
            /\ metaFile[ev.language] = File(MetaJson(now))
            /\ ev.table = parseLangContent(fetched[ev.language][1].body, ev.language)
    /\ (/\ LoadEntered
        /\ enabled
        /\ fetched[ev.language] # None
        /\ now - fetched[ev.language][1].at < CacheDurationMs) =>
            /\ ev.path = "cache-hit"
            /\ ev.table = parseLangContent(fetched[ev.language][1].body, ev.language)

\* C16: a step of clearCache leaves the language it was called for (every
\* language when called for none) without content file and without metadata
\* file, leaves the files of every other language as they were, starts no
\* fetch and changes neither the calls in flight nor the manager's table.
C16_ClearCache ==
    [][(ev'.name = "clearCache") =>
          /\ \A l \in Locales :
                IF ev'.language \in {"", l}
                THEN ~existsSync(cacheFile'[l]) /\ ~existsSync(metaFile'[l])
                ELSE cacheFile'[l] = cacheFile[l] /\ metaFile'[l] = metaFile[l]
          /\ "fetch" \notin ev'.io
          /\ loads' = loads
          /\ translations' = translations]_vars

\* Witness of C16: clearCache("en_US") has unlinked the files of en_US while
\* the record of de_DE is still there and a load of en_US is in flight.
C16_Witness ==
    /\ ev.name = "clearCache"
    /\ ev.language = "en_US"
    /\ "unlink" \in ev.io
    /\ ~existsSync(cacheFile["en_US"]) /\ ~existsSync(metaFile["en_US"])
    /\ RecordExists("de_DE")
    /\ \E id \in CallIds : loads[id] = [pc |-> "fetching", language |-> "en_US"]

\* C10: a loadTranslations entered while the provider is disabled returns the
\* empty table, touches no cache file and starts no fetch, for every language
\* and every state of the cache.
C10_Disabled ==
    [][(ev'.name = "load" /\ ~enabled) =>
          /\ ev'.path = "disabled"
          /\ ev'.table = EmptyMap
          /\ ev'.io = {}
          /\ cacheFile' = cacheFile
          /\ metaFile' = metaFile
          /\ loads' = loads]_vars

\* Witness of C10: a disabled load of a language whose cache holds a fresh
\* record with entries.
C10_Witness ==
    /\ LoadEntered
    /\ ~enabled
    /\ ev.path = "disabled"
    /\ ev.table = EmptyMap
    /\ RecordExists(ev.language)
    /\ cacheFile[ev.language].content # <<>>
    /\ now - metaFile[ev.language].content.fetchedAt.num < CacheDurationMs

(***************************************************************************)
(* Properties of the manager, checked under Spec                           *)
(***************************************************************************)

\* A step in which a refresh ran to its end, or was aborted by an error.
RefreshEnded == ev.op # "none" /\ ev.outcome # "suspended"

RefreshCompleted == ev.op # "none" /\ ev.outcome = "completed"

\* What the refresh that just ended had to merge: the baseline
\* loadTranslations returned, then the file of the current language of each
\* discovered pack with a texts directory, in discovery order.
Sources ==
    <<ev.table>> \o
    [i \in 1..Len(resourcePacks) |->
        IF resourcePacks[i].hasTexts
        THEN loadTranslations(resourcePacks[i].path, currentLanguage).table
        ELSE EmptyMap]

LastDefining(k) ==
    CHOOSE i \in DOMAIN Sources :
        /\ Has(Sources[i], k)
        /\ \A j \in DOMAIN Sources : j > i => ~Has(Sources[j], k)

\* C1 (as claimed): while a refresh is suspended on its baseline load, the
\* table the lookups see changes only by the installation of a complete
\* table: a step that leaves a call suspended either completes a refresh or
\* leaves every key's lookup as it was.
C1_NoTornTable ==
    [][(\E id \in CallIds : calls'[id].pc = "awaitLoad") =>
          \/ ev'.outcome = "completed"
          \/ \A k \in Keys(translations) \cup Keys(translations') :
                /\ hasTranslation(k)' = hasTranslation(k)
                /\ getTranslation(k)' = getTranslation(k)]_vars

\* C2 (as claimed): when setLanguage(L) returns, the current language is L
\* and the baseline of the table was loaded for L.
C2_SetLanguage ==
    (ev.op = "setLanguage" /\ ev.outcome = "completed") =>
        /\ getCurrentLanguage = ev.arg
        /\ ev.path # "none" => ev.language = ev.arg

\* C3: after a completed refresh the table has exactly the keys its sources
\* define, each with the value of the last source defining it, in the order
\* baseline, then the packs with texts in discovery order.
C3_MergePrecedence ==
    RefreshCompleted =>
        /\ Keys(translations) = UNION {Keys(Sources[i]) : i \in DOMAIN Sources}
        /\ \A k \in Keys(translations) :
              Get(translations, k).value = Get(Sources[LastDefining(k)], k).value

\* Witness of C3: the baseline defines k and j, pack A defines k and j, pack
\* B, discovered after A, defines k; the table has B's k and A's j.
C3_Witness ==
    /\ RefreshCompleted
    /\ Keys(ev.table) = {<<"k">>, <<"j">>}
    /\ Len(resourcePacks) = 2
    /\ Keys(Sources[2]) = {<<"k">>, <<"j">>}
    /\ Keys(Sources[3]) = {<<"k">>}
    /\ Get(translations, <<"k">>).value = <<"B">>
    /\ Get(translations, <<"j">>).value = <<"A">>

\* C5 (as claimed): a loadTranslations without cached content whose fetch
\* fails returns the empty table, and the refresh awaiting it completes with
\* the entries of the packs.
C5_ColdMiss ==
    (ev.name = "response" /\ ev.path = "cold-miss") =>
        /\ ev.table = EmptyMap
        /\ ev.op # "none" =>
              /\ ev.outcome = "completed"
              /\ Keys(translations) =
                    UNION {Keys(Sources[i]) : i \in DOMAIN Sources}

\* C6 (as claimed): a refresh whose pack cannot be listed or read still
\* completes and fires its notification, with every entry of the baseline
\* and of the other packs in the table.
C6_SourceIsolation ==
    RefreshEnded =>
        /\ ev.outcome = "completed"
        /\ ev.fired = 1
        /\ \A i \in DOMAIN Sources : Keys(Sources[i]) \subseteq Keys(translations)

\* An entry the baseline contributed: parseLangContent stamps it vanilla:<language>.
IsVanillaEntry(e) == e.filePath[1] = "vanilla"

\* C11 (as claimed): in the step a refresh starts, with the provider
\* initialised, the baseline is consulted exactly when the
\* useVanillaTranslations setting is on, and a refresh completing with the
\* setting off and no other refresh in flight leaves no baseline entry in
\* the table.
C11_ToggleHonoured ==
    /\ (ev.op # "none" /\ ev.name \notin {"response", "resume"} /\ vanillaProvider) =>
          ((ev.path = "disabled") <=> ~cfgUseVanilla)
    /\ (RefreshCompleted /\ vanillaProvider /\ ~cfgUseVanilla
        /\ \A id \in CallIds : calls[id].pc = "idle") =>
          \A e \in Entries(translations) : ~IsVanillaEntry(e)

\* The sources merged in order into an empty table.
RECURSIVE MergeFrom(_, _, _)
MergeFrom(sources, i, acc) ==
    IF i > Len(sources) THEN acc
    ELSE MergeFrom(sources, i + 1, Spread(acc, sources[i]))

MergeAll(sources) == MergeFrom(sources, 1, EmptyMap)

\* C12: a step fires the notification at most once, fires it exactly when a
\* refresh completes in it, and the table the subscribers then read is the
\* complete merge of that refresh: the baseline it was returned, then every
\* pack with texts.
C12_NotifyOnce ==
    /\ ev.fired \in {0, 1}
    /\ ev.fired = 1 <=> RefreshCompleted
    /\ ev.fired = 1 => translations = MergeAll(Sources)

\* Witness of C12: a refresh resumed by its response completes and fires
\* with baseline and pack entries in the table, while another refresh is
\* still suspended.
C12_Witness ==
    /\ ev.fired = 1
    /\ ev.name = "response"
    /\ \E id \in CallIds : calls[id].pc = "awaitLoad"
    /\ \E e \in Entries(translations) : IsVanillaEntry(e)
    /\ \E e \in Entries(translations) : ~IsVanillaEntry(e)

\* The table a refresh builds from its own inputs: the language it called
\* loadTranslations with, the packs discovered, the baseline it was returned.
OwnTable ==
    packLoop(getAllResourcePacks, 1, ev.language, Spread(EmptyMap, ev.table), {})

\* C13 (as claimed): when a refresh resumed after its await completes and no
\* other refresh is left in flight, the table is the one that refresh builds
\* from its own language, pack list and baseline.
C13_LastCompletedWins ==
    (ev.name \in {"response", "resume"} /\ RefreshCompleted
     /\ \A id \in CallIds : calls[id].pc = "idle") =>
        /\ ~OwnTable.threw
        /\ translations = OwnTable.translations

\* C17: with the provider enabled, the step of clearVanillaCache unlinks the
\* cache and its refresh goes on to fetch the current language: it is not
\* served from the cache, and the call is left awaiting the fetch.
C17_ClearThenFetch ==
    (ev.name = "clearVanillaCache" /\ enabled) =>
        /\ ev.path = "fetching"
        /\ "fetch" \in ev.io
        /\ "read" \notin ev.io
        /\ ev.language = currentLanguage
        /\ loads[ev.id] = [pc |-> "fetching", language |-> currentLanguage]
        /\ calls[ev.id].pc = "awaitLoad"

\* Witness of C17: clearVanillaCache found cache files to unlink, a day
\* after the start, and went on to fetch.
C17_Witness ==
    /\ ev.name = "clearVanillaCache"
    /\ enabled
    /\ "unlink" \in ev.io
    /\ ev.path = "fetching"
    /\ now > 0
    /\ \A l \in Locales : ~existsSync(cacheFile[l]) /\ ~existsSync(metaFile[l])

(***************************************************************************)
(* Properties of fetchUrl, checked under SpecFetch                         *)
(***************************************************************************)

\* C14 (as claimed): every loadTranslations that went on to fetch eventually
\* returns.
C14_LoadReturns ==
    \A id \in CallIds : (loads[id].pc = "fetching") ~> (loads[id].pc = "idle")

\* C15 (as claimed): a response with a 3xx status and a location is followed:
\* the step it causes is a redirect and the call goes on fetching.
C15_RedirectsFollowed ==
    [][\A id \in CallIds, response \in Responses :
          (/\ response.status \in 300..399
           /\ response.location
           /\ Respond(id, response)) =>
              /\ ev'.name = "redirect"
              /\ loads'[id].pc = "fetching"]_vars

(***************************************************************************)
(* Properties of searchTranslations, checked under SpecSearch              *)
(***************************************************************************)

\* entry matches query: its key or its value contains the query, both
\* compared in lower case.
Matches(e, query) ==
    \/ includes(toLowerCase(e.key), toLowerCase(query))
    \/ includes(toLowerCase(e.value), toLowerCase(query))

Matching(query) == {e \in Entries(translations) : Matches(e, query)}

Min(a, b) == IF a <= b THEN a ELSE b

\* C18 (as claimed): a search with a limit of zero or more returns entries of
\* the table that match the query, and exactly min(limit, number of matching
\* entries) of them.
C18_SearchBounded ==
    (ev.name = "search" /\ ev.limit >= 0) =>
        /\ \A i \in DOMAIN ev.results : ev.results[i] \in Matching(ev.query)
        /\ Len(ev.results) = Min(ev.limit, Cardinality(Matching(ev.query)))

\* C19 (as claimed): a search with a limit of zero or less returns the empty
\* sequence.
C19_InvalidLimit ==
    (ev.name = "search" /\ ev.limit <= 0) => ev.results = <<>>

(***************************************************************************)
(* Properties of the available languages, checked under Spec               *)
(***************************************************************************)

\* The languages every pack with texts lists.
PackLanguages ==
    UNION {findAvailableLanguages(resourcePacks[i].path).languages :
              i \in {j \in DOMAIN resourcePacks : resourcePacks[j].hasTexts}}

Rank(code) == CHOOSE n \in DOMAIN CodeOrder : CodeOrder[n] = code

\* C20 (as claimed): after a refresh completed with the provider initialised,
\* availableLanguages lists the provider's languages and the languages of
\* the packs with texts, each once, in ascending order.
C20_AvailableLanguages ==
    (RefreshCompleted /\ vanillaProvider) =>
        /\ {availableLanguages[i] : i \in DOMAIN availableLanguages}
              = {getAvailableLanguages[i] : i \in DOMAIN getAvailableLanguages}
                \cup PackLanguages
        /\ \A i, j \in DOMAIN availableLanguages :
              i < j => Rank(availableLanguages[i]) < Rank(availableLanguages[j])

(***************************************************************************)
(* Properties of resource pack discovery, checked under SpecScan           *)
(***************************************************************************)

\* The roots discovery visits, in the order it visits them.
Candidates == workspaceFolders \o cfgResourcePackPaths

FirstSeen(root) == CHOOSE i \in DOMAIN Candidates :
                      Candidates[i] = root /\ \A j \in 1..(i - 1) : Candidates[j] # root

\* C21: the list a discovery returns has each root path once, in the order
\* the roots were first seen, and discovering again over the same roots
\* returns the same list.
C21_DiscoveryUnique ==
    (ev.name = "discover") =>
        /\ \A i, j \in DOMAIN resourcePacks :
              i < j => /\ resourcePacks[i].path # resourcePacks[j].path
                       /\ FirstSeen(resourcePacks[i].path)
                             < FirstSeen(resourcePacks[j].path)
        /\ \A i \in DOMAIN resourcePacks :
              \E n \in DOMAIN Candidates : Candidates[n] = resourcePacks[i].path
        /\ getAllResourcePacks = resourcePacks

\* Witness of C21: both packs are workspace folders, in the order A, B, and
\* configured paths, in the order B, A; the list is A, B.
C21_Witness ==
    /\ ev.name = "discover"
    /\ workspaceFolders = <<"A", "B">>
    /\ cfgResourcePackPaths = <<"B", "A">>
    /\ Len(resourcePacks) = 2
    /\ resourcePacks[1].path = "A"
    /\ resourcePacks[2].path = "B"

\* The manifest of the root exists, is JSON, and has a module of type
\* "resources" in its modules array.
DeclaresResources(manifest) ==
    /\ manifest.kind = "file"
    /\ manifest.content.parses
    /\ manifest.content.modules # None
    /\ \E i \in DOMAIN manifest.content.modules[1] :
          manifest.content.modules[1][i] = "resources"

\* C22 (as claimed): a discovery reports a root exactly when its manifest
\* exists, is JSON and declares a module of type "resources".
C22_ManifestDecides ==
    (ev.name = "discover") =>
        \A n \in DOMAIN Candidates :
            (\E i \in DOMAIN resourcePacks : resourcePacks[i].path = Candidates[n])
                <=> DeclaresResources(packFiles[Candidates[n]].manifest)

(***************************************************************************)
(* Properties of the parsers, checked under SpecParse                      *)
(***************************************************************************)

Parsed == ev.name \in {"parseLangFile", "parseLangContent"}

\* The lines of the source the last parse read: none for a file that is
\* missing or cannot be read.
RawLines == IF ev.file.kind = "file" THEN SplitLines(ev.file.content) ELSE <<>>

\* The text of a line before its first "=", and all the text after it.
BeforeEquals(line) == SubSeq(line, 1, IndexOf(line, "="))
AfterEquals(line) == SubSeq(line, IndexOf(line, "=") + 2, Len(line))

\* A line that is not skipped: after trimming it is not empty, does not
\* begin with "#", contains "=" and has a non-empty key.
Defines(line) ==
    /\ Trim(line) # <<>>
    /\ Trim(line)[1] # "#"
    /\ IndexOf(Trim(line), "=") >= 1

\* C23 (as claimed): every entry has the key and the value of its line
\* exactly as written, split at the first "=", nothing removed; comment
\* lines give no entry.
C23_Verbatim ==
    Parsed =>
        \A i \in DOMAIN translations :
            LET line == RawLines[translations[i].line]
            IN  /\ Trim(line)[1] # "#"
                /\ translations[i].key = BeforeEquals(line)
                /\ translations[i].value = AfterEquals(line)

\* The last line of the source that defines key.
LastLine(key) ==
    CHOOSE n \in DOMAIN RawLines :
        /\ Defines(RawLines[n]) /\ BeforeEquals(Trim(RawLines[n])) = key
        /\ \A m \in DOMAIN RawLines :
              (Defines(RawLines[m]) /\ BeforeEquals(Trim(RawLines[m])) = key) => m <= n

\* C24 (as claimed): a key defined on several lines of a source has exactly
\* one entry, with the value and the 1-indexed line number of its last
\* occurrence.
C24_LastOccurrence ==
    (Parsed /\ ~ev.threw) =>
        \A n \in DOMAIN RawLines :
            Defines(RawLines[n]) =>
                LET key == BeforeEquals(Trim(RawLines[n]))
                IN  /\ Cardinality({i \in DOMAIN translations :
                                       translations[i].key = key}) = 1
                    /\ Get(translations, key).line = LastLine(key)
                    /\ Get(translations, key).value
                         = AfterEquals(Trim(RawLines[LastLine(key)]))

\* C25 (as claimed): a parse raises nothing; the table has the keys of
\* exactly the lines that are not skipped, an empty value is the empty
\* string, and a missing file gives the empty table.
C25_Total ==
    Parsed =>
        /\ ~ev.threw
        /\ Keys(translations)
             = {BeforeEquals(Trim(RawLines[n])) :
                  n \in {m \in DOMAIN RawLines : Defines(RawLines[m])}}
        /\ \A i \in DOMAIN translations :
              RawLines[translations[i].line] = <<"k", "=">>
                  => translations[i].value = <<>>
        /\ (ev.file.kind = "missing" => translations = EmptyMap)

(***************************************************************************)
(* Properties of the cache metadata, checked under SpecCache               *)
(***************************************************************************)

\* The metadata file is missing, cannot be read or parsed, or has no
\* usable fetch time: no fetchedAt that is a number, which is what
\* writeToCache records (Date.now()).
BadMetadata(meta) ==
    \/ meta.kind # "file"
    \/ ~meta.content.parses
    \/ meta.content.fetchedAt.type # "number"

\* C26 (as claimed): with bad metadata an enabled loadTranslations goes on
\* to fetch, and when the fetch fails it returns the table of the existing
\* content file, the empty table when there is none.
C26_BadMetadata ==
    (ev.language \in Locales /\ BadMetadata(metaFile[ev.language])) =>
        /\ (LoadEntered /\ enabled) => ev.path = "fetching" /\ "fetch" \in ev.io
        /\ FetchFailed =>
              ev.table = IF cacheFile[ev.language].kind = "file"
                         THEN parseLangContent(cacheFile[ev.language].content,
                                               ev.language)
                         ELSE EmptyMap

(***************************************************************************)
(* Properties of two refreshes in a row, checked under SpecTwice           *)
(***************************************************************************)

\* The settings, the workspace folders and the pack files are those of the
\* completed refresh observed last.
SameSettings == ev.last.completed /\ ev.last.settings = workspaceVars

\* C27: a completed refresh leaves the table and the available languages
\* that the completed refresh before it left, when the settings, the
\* workspace folders and the pack files are the same and
\*   the baseline loadTranslations returned is the same (or absent, without
\*   a provider, both times), or
\*   the baseline of the first was fetched and the baseline of the second
\*   is a cache hit of the same language, with no fetch and no clearing of
\*   that language in between.
C27_Idempotent ==
    (RefreshCompleted /\ SameSettings) =>
        /\ (ev.last.provider = vanillaProvider /\ ev.last.baseline.table = ev.table)
              => /\ translations = ev.last.translations
                 /\ availableLanguages = ev.last.availableLanguages
        /\ (/\ ev.last.baseline.path = "cache-refreshed"
            /\ ev.path = "cache-hit"
            /\ ev.language = ev.last.baseline.language
            /\ fetched[ev.language] # None
            /\ fetched[ev.language] = ev.last.fetched[ev.language])
              => /\ translations = ev.last.translations
                 /\ availableLanguages = ev.last.availableLanguages

\* Witness of C27: a refresh completed on a cache hit of the content the
\* refresh before it had fetched, under the same settings, and its table
\* has a baseline entry.
C27_Witness ==
    /\ RefreshCompleted
    /\ SameSettings
    /\ ev.name = "resume"
    /\ ev.path = "cache-hit"
    /\ ev.last.baseline.path = "cache-refreshed"
    /\ ev.language = ev.last.baseline.language
    /\ fetched[ev.language] # None
    /\ fetched[ev.language] = ev.last.fetched[ev.language]
    /\ translations = ev.last.translations
    /\ \E i \in DOMAIN translations :
          translations[i].filePath = VanillaPath(ev.language)

(***************************************************************************)
(* Properties of the rebuilt table, checked under Spec                     *)
(***************************************************************************)

\* C28: after a completed refresh the table has exactly the keys of the
\* sources that refresh read, and every entry of it is an entry of one of
\* them: nothing of an earlier table is left.
C28_FullyRebuilt ==
    RefreshCompleted =>
        /\ \A i \in DOMAIN Sources : Keys(Sources[i]) \subseteq Keys(translations)
        /\ Entries(translations) \subseteq
              UNION {Entries(Sources[i]) : i \in DOMAIN Sources}

\* Witness of C28: after a fetch of en_US had put j in the table, a refresh
\* for de_DE completed with the single entry of pack B's de_DE file.
C28_Witness ==
    /\ RefreshCompleted
    /\ currentLanguage = "de_DE"
    /\ fetched["en_US"] # None
    /\ Keys(translations) = {<<"k">>}
    /\ translations[1].filePath = LangFilePath("B", "de_DE")

\* C30 (as claimed): in the table a refresh leaves, completed or not, the
\* entry under k has key k and is, with all its fields, the entry of the
\* last source defining k: the baseline, marked vanilla:<locale>, or the
\* file of a pack.
C30_WholeEntries ==
    RefreshEnded =>
        \A i \in DOMAIN translations :
            LET k == translations[i].key
                n == LastDefining(k)
            IN  /\ \A j \in DOMAIN translations : translations[j].key = k => j = i
                /\ translations[i] = Get(Sources[n], k)
                /\ translations[i].filePath
                     = IF n = 1 THEN VanillaPath(ev.language)
                       ELSE LangFilePath(resourcePacks[n - 1].path, currentLanguage)

(***************************************************************************)
(* Properties of the lookups, checked under SpecSearch                     *)
(***************************************************************************)

\* C29 (as claimed): hasTranslation(key) is true exactly when
\* getTranslation(key) returns an entry, both only for a key of the table,
\* and on the empty table the one is false and the other returns nothing.
C29_ExistsIffLookup ==
    (ev.name = "lookup") =>
        /\ ev.exists <=> (ev.entry # None /\ ev.entry[1] \in Entries(translations))
        /\ ev.exists => ev.key \in Keys(translations)
        /\ translations = EmptyMap => (~ev.exists /\ ev.entry = None)

(***************************************************************************)
(* Properties of the active locale, checked under Spec                     *)
(***************************************************************************)

\* C31 (as claimed): the table a completed refresh installs is built for
\* one locale: the locale its baseline was loaded for is the locale its
\* pack files were loaded for.
C31_SingleLocale ==
    (RefreshCompleted /\ ev.path \notin {"none", "disabled"}) =>
        ev.language = currentLanguage

\* C32 (as claimed): the refresh command run directly after setLanguage(L)
\* has returned leaves the current language L and loads the baseline for L.
C32_RefreshKeepsLanguage ==
    [][(/\ ev.op = "setLanguage"
        /\ ev.outcome = "completed"
        /\ ev'.name = "refresh"
        /\ cfgDefaultLanguage' = cfgDefaultLanguage)
          => /\ getCurrentLanguage' = ev.arg
             /\ ev'.path # "none" => ev'.language = ev.arg]_vars

(***************************************************************************)
(* Properties of the sources read by a refresh, checked under Spec         *)
(***************************************************************************)

\* The texts directory of discovered pack i exists.
HasTextsDir(i) == packFiles[resourcePacks[i].path].texts = "dir"

\* The file of the current language of discovered pack i.
CurrentLangFile(i) == packFiles[resourcePacks[i].path].lang[currentLanguage]

\* The baseline, then what each discovered pack contributes when only the
\* packs with a texts directory and a file of the current language are read.
DirSources ==
    <<ev.table>> \o
    [i \in 1..Len(resourcePacks) |->
        IF HasTextsDir(i) /\ CurrentLangFile(i).kind = "file"
        THEN ParseFrom(SplitLines(CurrentLangFile(i).content), 0, EmptyMap,
                       LangFilePath(resourcePacks[i].path, currentLanguage))
        ELSE EmptyMap]

\* C33 (as claimed): when every language file present can be read, a refresh
\* leaves the merge of the baseline and of the packs that have a texts
\* directory and a file of the current language, and the languages of the
\* packs that have a texts directory: a pack without the directory, or
\* without the file, adds and removes nothing.
C33_OnlyTextsDirRead ==
    (RefreshEnded /\ \A i \in DOMAIN resourcePacks :
                        HasTextsDir(i) => CurrentLangFile(i).kind # "unreadable") =>
        /\ translations = MergeAll(DirSources)
        /\ {availableLanguages[n] : n \in DOMAIN availableLanguages}
              = UNION {{l \in Locales :
                          existsSync(packFiles[resourcePacks[i].path].lang[l])} :
                       i \in {j \in DOMAIN resourcePacks : HasTextsDir(j)}}

(***************************************************************************)
(* Properties of the discovery order, checked under SpecOrder              *)
(***************************************************************************)

InSeq(x, seq) == \E n \in DOMAIN seq : seq[n] = x

\* The discovered pack of root defines key in its file of the current
\* language.
PackDefines(root, key) ==
    /\ \E i \in DOMAIN resourcePacks : resourcePacks[i].path = root
    /\ Has(loadTranslations(root, currentLanguage).table, key)

PackValue(root, key) == Get(loadTranslations(root, currentLanguage).table, key).value

\* The original statement of C34: for a key defined by a workspace pack and
\* by a configured pack of another root, the table has the configured
\* pack's value.
C34_ConfiguredWins ==
    RefreshCompleted =>
        \A w, c \in Roots, k \in Keys(translations) :
            (/\ w # c
             /\ InSeq(w, workspaceFolders) /\ InSeq(c, cfgResourcePackPaths)
             /\ PackDefines(w, k) /\ PackDefines(c, k))
                => Get(translations, k).value = PackValue(c, k)

\* The place of the first x in seq
FirstIndex(x, seq) ==
    CHOOSE n \in DOMAIN seq : seq[n] = x /\ \A m \in 1..(n - 1) : seq[m] # x

\* The root is a configured path and no workspace folder.
ConfiguredOnly(root) ==
    InSeq(root, cfgResourcePackPaths) /\ ~InSeq(root, workspaceFolders)

\* C34 (amended): the packs of the workspace folders come first, in the
\* order of the workspace folders, then the packs of the configured paths
\* that are no workspace folder, in the order of the configuration (a root
\* listed twice counts where it is listed first); for a key defined by a
\* workspace pack and by such configured packs the table has the value of
\* the one of these configured packs that comes last in the configuration.
C34_ConfiguredOnlyWins ==
    RefreshCompleted =>
        /\ \A i, j \in DOMAIN resourcePacks :
              LET p == resourcePacks[i].path
                  q == resourcePacks[j].path
              IN  /\ (InSeq(p, workspaceFolders) /\ ~InSeq(q, workspaceFolders))
                        => i < j
                  /\ (InSeq(p, workspaceFolders) /\ InSeq(q, workspaceFolders))
                        => (i < j <=> FirstIndex(p, workspaceFolders)
                                        < FirstIndex(q, workspaceFolders))
                  /\ (ConfiguredOnly(p) /\ ConfiguredOnly(q))
                        => (i < j <=> FirstIndex(p, cfgResourcePackPaths)
                                        < FirstIndex(q, cfgResourcePackPaths))
        /\ \A w, c \in Roots, k \in Keys(translations) :
              (/\ InSeq(w, workspaceFolders) /\ ConfiguredOnly(c)
               /\ PackDefines(w, k) /\ PackDefines(c, k)
               /\ \A d \in Roots :
                     (ConfiguredOnly(d) /\ PackDefines(d, k))
                        => FirstIndex(d, cfgResourcePackPaths)
                             <= FirstIndex(c, cfgResourcePackPaths))
                  => Get(translations, k).value = PackValue(c, k)

\* Witness of C34: A is the workspace folder, B and C are the configured
\* paths in this order, the three define k, and the table has C's value.
C34_Witness ==
    /\ RefreshCompleted
    /\ workspaceFolders = <<"A">>
    /\ cfgResourcePackPaths = <<"B", "C">>
    /\ PackDefines("A", <<"k">>)
    /\ PackDefines("B", <<"k">>)
    /\ PackDefines("C", <<"k">>)
    /\ Get(translations, <<"k">>).value = <<"C">>

(***************************************************************************)
(* Properties of the cache record, checked under SpecProvider              *)
(***************************************************************************)

\* C35: every language has its content file and its metadata file, or
\* neither; the content stored is the one fetched last, and the fetch time
\* stored is not later than the time it was fetched at.
C35_RecordWhole ==
    \A l \in Locales :
        IF existsSync(cacheFile[l]) \/ existsSync(metaFile[l])
        THEN /\ RecordExists(l)
             /\ fetched[l] # None
             /\ cacheFile[l].content = fetched[l][1].body
             /\ metaFile[l].content.fetchedAt.type = "number"
             /\ metaFile[l].content.fetchedAt.num <= fetched[l][1].at
        ELSE cacheFile[l] = NoFile /\ metaFile[l] = NoFile

\* Witness of C35: a fetch of en_US resolved after the start and wrote the
\* record while another load of en_US is still in flight.
C35_Witness ==
    /\ ev.name = "response"
    /\ ev.path = "cache-refreshed"
    /\ ev.language = "en_US"
    /\ now > 0
    /\ RecordExists("en_US")
    /\ metaFile["en_US"].content.fetchedAt = JsonNumber(now)
    /\ \E id \in CallIds : loads[id] = [pc |-> "fetching", language |-> "en_US"]

(***************************************************************************)
(* Properties of a failed cache write, checked under SpecWrite             *)
(***************************************************************************)

\* C36 (as claimed): a loadTranslations whose fetch resolved returns the
\* table parsed from the fetched body, whether writeToCache succeeded or
\* raised.
C36_FetchedDataKept ==
    /\ (ev.name = "response" /\ ev.path = "cache-refreshed") =>
          ev.table = parseLangContent(fetched[ev.language][1].body, ev.language)
    /\ (ev.name = "writeFailed") =>
          ev.table = parseLangContent(ev.arg, ev.language)

(***************************************************************************)
(* Equivalence of the two parsers, checked under SpecParse                 *)
(***************************************************************************)

\* A table without the source location of its entries.
WithoutPath(table) ==
    [i \in DOMAIN table |->
        [key |-> table[i].key, value |-> table[i].value, line |-> table[i].line]]

\* C37: the table one parser returned for a content has the keys, values
\* and line numbers of the table the other parser returns for that content,
\* in the same order; the entries differ in filePath only, which is the path
\* of the file in the one and vanilla:<language> in the other.
C37_ParsersAgree ==
    (Parsed /\ ev.file.kind = "file") =>
        \E other \in {IF ev.name = "parseLangFile"
                      THEN parseLangContent(ev.file.content, "en_US")
                      ELSE parseLangFile(ev.file, LangFilePath("A", "en_US")).table} :
            /\ WithoutPath(translations) = WithoutPath(other)
            /\ \A i \in DOMAIN translations :
                  {translations[i].filePath, other[i].filePath}
                      = {LangFilePath("A", "en_US"), VanillaPath("en_US")}

\* Witness of C37: the file parser read "k=w \nj=x\r" and returned two
\* entries, trimmed, with their lines.
C37_Witness ==
    /\ ev.name = "parseLangFile"
    /\ ev.file = File(<<"k", "=", "w", " ", "\n", "j", "=", "x", "\r">>)
    /\ Len(translations) = 2
    /\ translations[2].value = <<"x">>
    /\ translations[2].line = 2

====
